---------------------------- MODULE Spec2Model ----------------------------
(***************************************************************************)
(* Merge discipline of the schema compiler's declarations.                 *)
(*                                                                         *)
(* Two implementations of `Merge` for declarations exist in the sources:   *)
(*   - src/src/backend/merge.rs      impl Merge for Token<Decl>            *)
(*   - src/reproto_core/src/rp_decl.rs  impl Merge for RpLoc<RpDecl>       *)
(* The environment registers the first declaration found under a name and  *)
(* merges every further declaration of that name into it.  The model       *)
(* follows one name: `dst` is the declaration registered under it, each    *)
(* step hands one more parsed declaration (`source`) to merge.             *)
(*                                                                         *)
(* Rust's `fn merge(&mut self, other) -> Result<()>` mutates `self` in     *)
(* place; every merge operator below therefore returns the pair            *)
(*   [val |-> value of self when the call returns, err |-> Ok or error]    *)
(* and a `?` early return keeps whatever was written to self before it.    *)
(***************************************************************************)
EXTENDS Integers, Sequences, FiniteSets, TLC

(***************************************************************************)
(* Bounds of the model.                                                    *)
(***************************************************************************)
\* Total size of the input corpus: every declaration handed in counts for one,
\* plus one for each field, code block, variant, endpoint and sub-type name
\* it carries (an empty sub-type counts for one).
MaxTotal == 5

\* Field identifiers, enum variant identifiers, sub-type (discriminator) keys,
\* code block texts and sub-type wire names the inputs are drawn from.
Ident == {"a", "b"}
VariantIdent == {"V"}
CodeText == {"code"}
WireName == {"n"}
\* BTreeMap iterates its keys in ascending order: "Circle" < "Square".
KeyOrder == <<"Circle", "Square">>
Keys == {KeyOrder[i] : i \in DOMAIN KeyOrder}


(***************************************************************************)
(* Results and errors (error constructors of super::errors).               *)
(***************************************************************************)
Ok == [kind |-> "Ok"]

\* Error::field_conflict(name, pos of the new field, pos of the existing one)
FieldConflict(name, new, existing) ==
    [kind |-> "FieldConflict", name |-> name, first |-> new, second |-> existing]

\* ErrorKind::ExtendEnum(message, pos of the variant or field, pos of the enum)
ExtendEnum(what, offending, existing) ==
    [kind |-> "ExtendEnum", what |-> what, first |-> offending, second |-> existing]

\* ErrorKind::DeclMerge(message, source.pos, dest_pos)
DeclMerge(srcPos, dstPos) ==
    [kind |-> "DeclMerge", first |-> srcPos, second |-> dstPos]

Return(self, err) == [val |-> self, err |-> err]

Min(S) == CHOOSE x \in S : \A y \in S : x <= y

(***************************************************************************)
(* impl Merge for Vec<Token<Code>>: self.extend(source); Ok(())            *)
(***************************************************************************)
\* variant: a source block whose text the destination already holds is dropped
CodesMergeDedup(self, source) ==
    LET known(c) == \E i \in DOMAIN self : self[i].text = c.text
    IN  Return(self \o SelectSeq(source, LAMBDA c : ~known(c)), Ok)

CodesMerge(self, source) == Return(self \o source, Ok)

(***************************************************************************)
(* impl Merge for Vec<Token<Field>>: for each source field in order, the   *)
(* first element of self with the same name is a conflict (early return,   *)
(* the fields pushed so far stay in self); otherwise the field is pushed.  *)
(***************************************************************************)
RECURSIVE FieldsMergeLoop(_, _)
FieldsMergeLoop(self, source) ==
    IF source = <<>> THEN Return(self, Ok)
    ELSE LET f == Head(source)
             found == {i \in DOMAIN self : self[i].name = f.name}
         IN  IF found # {}
             THEN Return(self, FieldConflict(f.name, f.pos, self[Min(found)].pos))
             ELSE FieldsMergeLoop(Append(self, f), Tail(source))

\* variant: the two positions of the conflict in the other order
FieldsMergeSwapped(self, source) ==
    LET r == FieldsMergeLoop(self, source)
    IN  IF r.err = Ok THEN r
        ELSE Return(r.val, FieldConflict(r.err.name, r.err.second, r.err.first))

\* variant: the loop leaves after the first push
FieldsMergeFirstOnly(self, source) ==
    IF source = <<>> THEN Return(self, Ok)
    ELSE FieldsMergeLoop(self, <<Head(source)>>)

\* variant: no look-up of an existing field, every source field is pushed
FieldsMergeNoCheck(self, source) == Return(self \o source, Ok)

FieldsMerge(self, source) == FieldsMergeLoop(self, source)

(***************************************************************************)
(* impl Merge for SubType, and impl Merge for Token<T> around it: the      *)
(* token keeps its own pos, only the inner value is merged.                *)
(***************************************************************************)
\* variant: the names of the source are not taken over
SubTypeMergeNoNames(self, source) ==
    LET f == FieldsMerge(self.fields, source.fields)
        s1 == [self EXCEPT !.fields = f.val]
        c == CodesMerge(s1.codes, source.codes)
    IN  IF f.err # Ok THEN Return(s1, f.err)
        ELSE Return([s1 EXCEPT !.codes = c.val], c.err)

SubTypeMerge(self, source) ==
    LET f == FieldsMerge(self.fields, source.fields)
        s1 == [self EXCEPT !.fields = f.val]
        c == CodesMerge(s1.codes, source.codes)
        s2 == [s1 EXCEPT !.codes = c.val]
    IN  IF f.err # Ok THEN Return(s1, f.err)
        ELSE IF c.err # Ok THEN Return(s2, c.err)
        ELSE Return([s2 EXCEPT !.names = s2.names \o source.names], Ok)

(***************************************************************************)
(* impl Merge for BTreeMap<K, T>: the source entries in ascending key      *)
(* order; a vacant key is inserted, an occupied one merged with `?`.       *)
(***************************************************************************)
RECURSIVE BTreeMapMergeFrom(_, _, _)
BTreeMapMergeFrom(self, source, i) ==
    IF i > Len(KeyOrder) THEN Return(self, Ok)
    ELSE LET key == KeyOrder[i] IN
         IF key \notin DOMAIN source THEN BTreeMapMergeFrom(self, source, i + 1)
         ELSE IF key \notin DOMAIN self
              THEN BTreeMapMergeFrom(self @@ (key :> source[key]), source, i + 1)
              ELSE LET r == SubTypeMerge(self[key], source[key])
                       s1 == [self EXCEPT ![key] = r.val]
                   IN  IF r.err # Ok THEN Return(s1, r.err)
                       ELSE BTreeMapMergeFrom(s1, source, i + 1)

\* variant: an occupied entry is overwritten with the source value
BTreeMapMergeInsert(self, source) ==
    Return([k \in DOMAIN self \cup DOMAIN source |->
              IF k \in DOMAIN source THEN source[k] ELSE self[k]], Ok)

BTreeMapMerge(self, source) == BTreeMapMergeFrom(self, source, 1)

(***************************************************************************)
(* Bodies.  TypeBody, TupleBody and EnumBody merge their fields, then      *)
(* their codes; InterfaceBody then merges its sub_types.  Whatever else a  *)
(* body holds (an enum's variants) is not touched: the source's is dropped.*)
(***************************************************************************)
FieldsAndCodesMerge(self, source) ==
    LET f == FieldsMerge(self.fields, source.fields)
        s1 == [self EXCEPT !.fields = f.val]
        c == CodesMerge(s1.codes, source.codes)
        s2 == [s1 EXCEPT !.codes = c.val]
    IN  IF f.err # Ok THEN Return(s1, f.err)
        ELSE Return(s2, c.err)

TypeBodyMerge(self, source) == FieldsAndCodesMerge(self, source)

TupleBodyMerge(self, source) == FieldsAndCodesMerge(self, source)

\* variant: the variants of the source replace those of self
EnumBodyMergeOverwrite(self, source) ==
    LET r == FieldsAndCodesMerge(self, source)
    IN  Return([r.val EXCEPT !.variants = source.variants], r.err)

EnumBodyMerge(self, source) == FieldsAndCodesMerge(self, source)

InterfaceBodyMerge(self, source) ==
    LET fc == FieldsAndCodesMerge(self, source)
        m == BTreeMapMerge(fc.val.sub_types, source.sub_types)
    IN  IF fc.err # Ok THEN fc
        ELSE Return([fc.val EXCEPT !.sub_types = m.val], m.err)


(***************************************************************************)
(* The body merges of the core IR (Rc<RpTypeBody>, Rc<RpInterfaceBody>,    *)
(* Rc<RpEnumBody>, Rc<RpTupleBody>, Rc<RpServiceBody>) that rp_decl.rs     *)
(* calls are not part of the sources at hand.  They follow the merge       *)
(* contracts of the design: field lists by disjoint union, code blocks     *)
(* appended, sub-types map-merged; a service's endpoints are taken as one  *)
(* more identifier-keyed list.                                             *)
(***************************************************************************)
ServiceBodyMerge(self, source) ==
    LET e == FieldsMerge(self.endpoints, source.endpoints)
    IN  Return([self EXCEPT !.endpoints = e.val], e.err)

RpBodyMerge(kind, self, source) ==
    CASE kind = "Type" -> TypeBodyMerge(self, source)
      [] kind = "Interface" -> InterfaceBodyMerge(self, source)
      [] kind = "Enum" -> EnumBodyMerge(self, source)
      [] kind = "Tuple" -> TupleBodyMerge(self, source)
      [] kind = "Service" -> ServiceBodyMerge(self, source)

(***************************************************************************)
(* impl Merge for Token<Decl> (backend/merge.rs): Decl has the four kinds  *)
(* Type, Enum, Interface, Tuple.                                           *)
(***************************************************************************)
BackendKinds == {"Type", "Enum", "Interface", "Tuple"}

\* variant: the error names the target first and the source second
TokenDeclMergeSwapped(self, source) ==
    LET target_pos == self.pos
        merged(b) == Return([self EXCEPT !.body = b.val], b.err)
    IN  CASE self.kind = "Type" /\ source.kind = "Type" ->
               merged(TypeBodyMerge(self.body, source.body))
          [] self.kind = "Enum" /\ source.kind = "Enum" ->
               merged(EnumBodyMerge(self.body, source.body))
          [] self.kind = "Interface" /\ source.kind = "Interface" ->
               merged(InterfaceBodyMerge(self.body, source.body))
          [] self.kind = "Tuple" /\ source.kind = "Tuple" ->
               merged(TupleBodyMerge(self.body, source.body))
          [] OTHER -> Return(self, DeclMerge(target_pos, source.pos))

TokenDeclMerge(self, source) ==
    LET target_pos == self.pos
        merged(b) == Return([self EXCEPT !.body = b.val], b.err)
    IN  CASE self.kind = "Type" /\ source.kind = "Type" ->
               merged(TypeBodyMerge(self.body, source.body))
          [] self.kind = "Enum" /\ source.kind = "Enum" ->
               merged(EnumBodyMerge(self.body, source.body))
          [] self.kind = "Interface" /\ source.kind = "Interface" ->
               merged(InterfaceBodyMerge(self.body, source.body))
          [] self.kind = "Tuple" /\ source.kind = "Tuple" ->
               merged(TupleBodyMerge(self.body, source.body))
          [] OTHER -> Return(self, DeclMerge(source.pos, target_pos))

(***************************************************************************)
(* impl Merge for RpLoc<RpDecl> (reproto_core/rp_decl.rs): five kinds; an  *)
(* enum source with a variant or a field is refused before any merge.      *)
(***************************************************************************)
CoreKinds == {"Type", "Interface", "Enum", "Tuple", "Service"}

RpDeclMerge(self, source) ==
    LET dest_pos == self.pos
        merged(b) == Return([self EXCEPT !.body = b.val], b.err)
    IN  CASE self.kind = "Type" /\ source.kind = "Type" ->
               merged(RpBodyMerge("Type", self.body, source.body))
          [] self.kind = "Enum" /\ source.kind = "Enum" ->
               IF source.body.variants # <<>>
               THEN Return(self, ExtendEnum("variants", source.body.variants[1].pos,
                                            dest_pos))
               ELSE IF source.body.fields # <<>>
               THEN Return(self, ExtendEnum("fields", source.body.fields[1].pos,
                                            dest_pos))
               ELSE merged(RpBodyMerge("Enum", self.body, source.body))
          [] self.kind = "Interface" /\ source.kind = "Interface" ->
               merged(RpBodyMerge("Interface", self.body, source.body))
          [] self.kind = "Tuple" /\ source.kind = "Tuple" ->
               merged(RpBodyMerge("Tuple", self.body, source.body))
          [] self.kind = "Service" /\ source.kind = "Service" ->
               merged(RpBodyMerge("Service", self.body, source.body))
          [] OTHER -> Return(self, DeclMerge(source.pos, dest_pos))

(***************************************************************************)
(* Inputs: the declarations a parsed file can hand in.  Every token        *)
(* carries the position it was read at: <<file, container, slot, index>>.  *)
(***************************************************************************)
SeqsUpTo(S, n) == UNION {[1..k -> S] : k \in 0..n}

Named(file, where, slot, xs) ==
    [i \in 1..Len(xs) |-> [name |-> xs[i], pos |-> <<file, where, slot, i>>]]

Codes(file, where, xs) ==
    [i \in 1..Len(xs) |-> [text |-> xs[i], pos |-> <<file, where, "code", i>>]]

EmptyMap == [k \in {} |-> {}]

Decl(file, kind, body) ==
    [pos |-> <<file, "top", "decl", 0>>, kind |-> kind, body |-> body]

\* bodies of fields and code blocks with at most n elements
FieldCodeBodies(file, n) ==
    UNION {{[fields |-> Named(file, "top", "field", f), codes |-> Codes(file, "top", c)] :
              f \in [1..k -> Ident], c \in SeqsUpTo(CodeText, n - k)} : k \in 0..n}

EnumBodies(file, n) ==
    UNION {{[b EXCEPT !.variants = Named(file, "top", "variant", v)] :
              v \in [1..k -> VariantIdent],
              b \in {[variants |-> <<>>, fields |-> x.fields, codes |-> x.codes] :
                       x \in FieldCodeBodies(file, n - k)}} : k \in 0..n}

ServiceBodies(file, n) ==
    {[endpoints |-> Named(file, "top", "endpoint", e)] : e \in SeqsUpTo(Ident, n)}

\* a sub-type counts for what it carries, and for one when it carries nothing
SubTypeSize(st) ==
    LET n == Len(st.fields) + Len(st.codes) + Len(st.names)
    IN  IF n = 0 THEN 1 ELSE n

SubTypes(file, key, n) ==
    UNION {UNION {{[pos |-> <<file, key, "sub_type", 0>>,
                    fields |-> Named(file, key, "field", f),
                    codes |-> Codes(file, key, c),
                    names |-> Named(file, key, "name", w)] :
                     f \in [1..k -> Ident], c \in [1..j -> CodeText],
                     w \in SeqsUpTo(WireName, n - k - j)} : j \in 0..(n - k)} : k \in 0..n}

RECURSIVE SubTypeMaps(_, _, _)
SubTypeMaps(file, i, n) ==
    IF i > Len(KeyOrder) THEN {EmptyMap}
    ELSE SubTypeMaps(file, i + 1, n)
         \cup UNION {{(KeyOrder[i] :> st) @@ rest :
                        rest \in SubTypeMaps(file, i + 1, n - SubTypeSize(st))} :
                     st \in {x \in SubTypes(file, KeyOrder[i], n) : SubTypeSize(x) <= n}}

MapSize(m) ==
    LET RECURSIVE Sum(_)
        Sum(S) == IF S = {} THEN 0
                  ELSE LET k == CHOOSE k \in S : TRUE
                       IN  SubTypeSize(m[k]) + Sum(S \ {k})
    IN  Sum(DOMAIN m)

InterfaceBodies(file, n) ==
    UNION {{[fields |-> x.fields, codes |-> x.codes, sub_types |-> m] :
              x \in FieldCodeBodies(file, n - MapSize(m))} : m \in SubTypeMaps(file, 1, n)}

Bodies(file, kind, n) ==
    CASE kind = "Type" -> FieldCodeBodies(file, n)
      [] kind = "Tuple" -> FieldCodeBodies(file, n)
      [] kind = "Enum" -> EnumBodies(file, n)
      [] kind = "Interface" -> InterfaceBodies(file, n)
      [] kind = "Service" -> ServiceBodies(file, n)

\* the declarations of the given kinds a file can hold within n elements
Sources(file, kinds, n) ==
    UNION {{Decl(file, kind, b) : b \in Bodies(file, kind, n)} : kind \in kinds}

Size(d) ==
    CASE d.kind \in {"Type", "Tuple"} -> Len(d.body.fields) + Len(d.body.codes)
      [] d.kind = "Enum" ->
           Len(d.body.variants) + Len(d.body.fields) + Len(d.body.codes)
      [] d.kind = "Interface" ->
           Len(d.body.fields) + Len(d.body.codes) + MapSize(d.body.sub_types)
      [] d.kind = "Service" -> Len(d.body.endpoints)


(***************************************************************************)
(* Invariants of the IR that into_model establishes for the declaration    *)
(* registered first: identifiers unique per container, no sub-type field   *)
(* shadowing a common field.                                               *)
(***************************************************************************)
NamesOf(xs) == {xs[i].name : i \in DOMAIN xs}

Unique(xs) == \A i, j \in DOMAIN xs : xs[i].name = xs[j].name => i = j

\* the field lists of a declaration, one per container
Containers(d) ==
    CASE d.kind \in {"Type", "Tuple", "Enum"} -> {d.body.fields}
      [] d.kind = "Interface" ->
           {d.body.fields} \cup {d.body.sub_types[k].fields : k \in DOMAIN d.body.sub_types}
      [] d.kind = "Service" -> {d.body.endpoints}

UniqueFields(d) == \A xs \in Containers(d) : Unique(xs)

NoShadowing(d) ==
    d.kind = "Interface" =>
        \A k \in DOMAIN d.body.sub_types :
            NamesOf(d.body.sub_types[k].fields) \cap NamesOf(d.body.fields) = {}

Valid(d) ==
    /\ UniqueFields(d)
    /\ NoShadowing(d)
    /\ d.kind = "Enum" => Unique(d.body.variants)

(***************************************************************************)
(* State.                                                                  *)
(***************************************************************************)
VARIABLES
    ir,      \* which IR the build uses: "backend" (Token<Decl>) or "core" (RpLoc<RpDecl>)
    dst,     \* the declaration registered under the name
    files,   \* the declarations handed in so far, in order (files[1] was registered)
    pre,     \* dst when the last merge call started
    res      \* what the last merge call returned: Ok or an error

\* The language server's workspace.
VARIABLES
    repo,    \* what the resolver finds: package -> its versions, newest first
    content, \* the text of each package's file, as parsed
    ws,      \* the Workspace: packages, loaded_files, files, lookup, edited_files
    ctx,     \* the diagnostics of the last compilation (Context)
    stack,   \* the calls of process in progress, innermost first
    todo,    \* the packages of the manifest reload has not processed yet
    pc,      \* "idle", or "reload" while reload runs
    wres,    \* what the last reload returned
    spent,   \* tokens of text written so far
    ans      \* the answers to the last query

\* The command line and the Go backend.
VARIABLES
    cli,     \* the run of the command-line program
    go,      \* the Go backend at work on a package
    java,    \* the fasterxml module of the Java backend and the code it generated
    objects  \* the object store asked for by URL

mergeVars == <<ir, dst, files, pre, res>>
wsVars == <<repo, content, ws, ctx, stack, todo, pc, wres, spent, ans>>
vars == <<mergeVars, wsVars, cli, go, java, objects>>

\* the parts of the program a specification leaves out stay as they are
Off == <<>>
MergeOff == ir = Off /\ dst = Off /\ files = Off /\ pre = Off /\ res = Off
WsOff ==
    /\ repo = Off /\ content = Off /\ ws = Off /\ ctx = Off /\ stack = Off
    /\ todo = Off /\ pc = Off /\ wres = Off /\ spent = Off /\ ans = Off
CliOff == cli = Off
GoOff == go = Off
JavaOff == java = Off
ObjectsOff == objects = Off

NoCall == [kind |-> "NoCall"]

KindsOf(i) == IF i = "backend" THEN BackendKinds ELSE CoreKinds

RECURSIVE Cost(_)
Cost(fs) == IF fs = <<>> THEN 0 ELSE 1 + Size(Head(fs)) + Cost(Tail(fs))

\* what the next file may still carry
Room == MaxTotal - Cost(files) - 1

\* the source of the last merge call
src == files[Len(files)]

Init ==
    /\ ir \in {"backend", "core"}
    /\ dst \in {d \in Sources(0, KindsOf(ir), MaxTotal - 1) : Valid(d)}
    /\ files = <<dst>>
    /\ pre = dst
    /\ res = NoCall
    /\ WsOff /\ CliOff /\ GoOff /\ JavaOff /\ ObjectsOff

\* Token<Decl>::merge(&mut dst, source)
MergeTokenDecl ==
    /\ ir = "backend"
    /\ Room >= 0
    /\ \E source \in Sources(Len(files), BackendKinds, Room) :
         LET m == TokenDeclMerge(dst, source) IN
         /\ dst' = m.val
         /\ res' = m.err
         /\ pre' = dst
         /\ files' = Append(files, source)
    /\ UNCHANGED <<ir, wsVars, cli, go, java, objects>>

\* RpLoc<RpDecl>::merge(&mut dst, source)
MergeRpDecl ==
    /\ ir = "core"
    /\ Room >= 0
    /\ \E source \in Sources(Len(files), CoreKinds, Room) :
         LET m == RpDeclMerge(dst, source) IN
         /\ dst' = m.val
         /\ res' = m.err
         /\ pre' = dst
         /\ files' = Append(files, source)
    /\ UNCHANGED <<ir, wsVars, cli, go, java, objects>>

Next == MergeTokenDecl \/ MergeRpDecl

Spec == Init /\ [][Next]_vars


(***************************************************************************)
(* Properties.                                                             *)
(***************************************************************************)
\* a merge call has returned
Called == Len(files) >= 2

\* the last call merged a declaration of the destination's kind
SameKind == Called /\ src.kind = pre.kind

\* the last call ran the field-list merge on the top-level fields
FieldsCall ==
    /\ SameKind
    /\ \/ pre.kind \in {"Type", "Tuple", "Interface"}
       \/ pre.kind = "Enum" /\ ir = "backend"

\* pos of the first element of xs with the given name
PosOf(xs, name) == xs[Min({i \in DOMAIN xs : xs[i].name = name})].pos

FileOf(pos) == pos[1]
ContainerOf(pos) == pos[2]

\* C1 (as claimed): a merge call that returns an error leaves the destination
\* equal to its value before the call (here for a source that is itself a
\* valid declaration merged into a valid destination).
C1_ErrorLeavesDestination ==
    (Called /\ res # Ok /\ Valid(src) /\ Valid(pre)) => dst = pre

C3_EnumOnlyCodeBlocks ==
    (SameKind /\ pre.kind = "Enum") =>
        /\ (src.body.variants # <<>> \/ src.body.fields # <<>>) =>
               /\ res.kind = "ExtendEnum"
               /\ res.second = pre.pos
               /\ res.first \in {x.pos : x \in {src.body.variants[i] : i \in DOMAIN src.body.variants}
                                            \cup {src.body.fields[i] : i \in DOMAIN src.body.fields}}
        /\ res = Ok => /\ dst.body.variants = pre.body.variants
                       /\ dst.body.fields = pre.body.fields

\* C4: a source of another kind is refused with DeclMerge(source pos,
\* destination pos) and nothing is merged; a source of the same kind never
\* yields DeclMerge.
C4_CrossKindDeclMerge ==
    Called =>
        IF src.kind # pre.kind
        THEN /\ res = [kind |-> "DeclMerge", first |-> src.pos, second |-> pre.pos]
             /\ dst = pre
        ELSE res.kind # "DeclMerge"

C4_Witness ==
    /\ Called
    /\ src.kind # pre.kind
    /\ Size(src) > 0 /\ Size(pre) > 0
    /\ res.kind = "DeclMerge"
    /\ FileOf(res.first) = Len(files) - 1


\* merge as the build in use performs it
M(d, s) == IF ir = "backend" THEN TokenDeclMerge(d, s) ELSE RpDeclMerge(d, s)

FieldIds(d) == UNION {NamesOf(xs) : xs \in Containers(d)}

\* the first n declarations handed in are valid declarations of one kind with
\* pairwise disjoint field identifiers
ConflictFree(n) ==
    /\ Len(files) >= n
    /\ \A i \in 1..n : Valid(files[i]) /\ files[i].kind = files[1].kind
    /\ \A i, j \in 1..n : i # j => FieldIds(files[i]) \cap FieldIds(files[j]) = {}

Range(xs) == {xs[i] : i \in DOMAIN xs}

\* sub-type map of a declaration (empty for the kinds without sub-types)
SubTypesOf(d) == IF d.kind = "Interface" THEN d.body.sub_types ELSE EmptyMap

\* field list, code blocks, sub-type map and sub-type names, in order
Content(d) ==
    [fields |-> IF d.kind = "Service" THEN <<>> ELSE d.body.fields,
     codes |-> IF d.kind = "Service" THEN <<>> ELSE d.body.codes,
     sub_types |-> [k \in DOMAIN SubTypesOf(d) |->
                      [fields |-> SubTypesOf(d)[k].fields,
                       codes |-> SubTypesOf(d)[k].codes,
                       names |-> SubTypesOf(d)[k].names]]]

\* the same, each list taken as the set of its elements
Unordered(d) ==
    LET c == Content(d) IN
    [fields |-> Range(c.fields),
     codes |-> Range(c.codes),
     sub_types |-> [k \in DOMAIN c.sub_types |->
                      [fields |-> Range(c.sub_types[k].fields),
                       codes |-> Range(c.sub_types[k].codes),
                       names |-> Range(c.sub_types[k].names)]]]

FieldKinds == {"Type", "Tuple", "Interface"}

\* C5 (as claimed): on conflict-free inputs merge(a,b) equals merge(b,a) and
\* merge(merge(a,b),c) equals merge(a,merge(b,c)), comparing field list, code
\* blocks, sub-type map and sub-type names.
C5_Original ==
    /\ (Len(files) = 2 /\ ConflictFree(2)) =>
           LET ba == M(files[2], files[1])
           IN  res = Ok /\ ba.err = Ok /\ Content(dst) = Content(ba.val)
    /\ (Len(files) = 3 /\ ConflictFree(3)) =>
           LET bc == M(files[2], files[3])
               r == M(files[1], bc.val)
           IN  res = Ok /\ r.err = Ok /\ Content(dst) = Content(r.val)

\* C5 (amended): on conflict-free inputs merge is associative: the two
\* groupings succeed together (always, for Type, Tuple and Interface) and then
\* yield the same declaration; it is commutative up to order only: when
\* merge(a,b) and merge(b,a) both succeed (always, for Type, Tuple and
\* Interface) they hold the same fields, code blocks, sub-type keys and
\* sub-type names, each list with the destination's elements first.
C5_AssociativeCommutativeUpToOrder ==
    /\ (Len(files) = 2 /\ ConflictFree(2)) =>
           LET ba == M(files[2], files[1])
           IN  /\ files[1].kind \in FieldKinds => res = Ok /\ ba.err = Ok
               /\ (res = Ok /\ ba.err = Ok) => Unordered(dst) = Unordered(ba.val)
    /\ (Len(files) = 3 /\ ConflictFree(3)) =>
           LET ab == M(files[1], files[2])
               bc == M(files[2], files[3])
               r == M(files[1], bc.val)
           IN  /\ files[1].kind \in FieldKinds => ab.err = Ok /\ bc.err = Ok /\ res = Ok
               /\ (ab.err = Ok /\ bc.err = Ok) =>
                      /\ (res = Ok) <=> (r.err = Ok)
                      /\ res = Ok => dst = r.val

\* three conflict-free declarations merged, the later two not empty
C5_Witness ==
    /\ Len(files) = 3 /\ ConflictFree(3)
    /\ files[1].kind \in FieldKinds
    /\ Size(files[2]) > 0 /\ Size(files[3]) > 0
    /\ res = Ok

\* field identifiers of a declaration, per container
FieldSets(d) ==
    [top |-> IF d.kind = "Service" THEN {} ELSE NamesOf(d.body.fields),
     sub_types |-> [k \in DOMAIN SubTypesOf(d) |-> NamesOf(SubTypesOf(d)[k].fields)]]

\* per-container union of the field identifiers of two declarations
FieldSetsUnion(a, b) ==
    LET x == FieldSets(a)
        y == FieldSets(b)
    IN  [top |-> x.top \cup y.top,
         sub_types |-> [k \in DOMAIN x.sub_types \cup DOMAIN y.sub_types |->
                          (IF k \in DOMAIN x.sub_types THEN x.sub_types[k] ELSE {})
                          \cup (IF k \in DOMAIN y.sub_types THEN y.sub_types[k] ELSE {})]]

\* merge in both orders succeeds and yields the union of the two field sets
BothOrdersUnion ==
    LET ba == M(files[2], files[1])
    IN  /\ res = Ok /\ ba.err = Ok
        /\ FieldSets(dst) = FieldSetsUnion(files[1], files[2])
        /\ FieldSets(ba.val) = FieldSetsUnion(files[1], files[2])

IsEmpty(d) == Size(d) = 0

\* C7: merging the empty declaration of the destination's kind succeeds and
\* leaves the destination as it was.
C7_MergeIdentity == (SameKind /\ IsEmpty(src)) => (res = Ok /\ dst = pre)

C7_Witness ==
    /\ SameKind /\ IsEmpty(src)
    /\ Size(pre) >= 2
    /\ pre.kind \in {"Enum", "Interface"}
    /\ res = Ok

Inserted(k) == files[FileOf(dst.body.sub_types[k].pos) + 1].body.sub_types[k]

C9_NoShadowing ==
    (/\ SameKind /\ pre.kind = "Interface"
     /\ Valid(pre) /\ Valid(src)
     /\ res = Ok)
    => NoShadowing(dst)

\* C10: a successful merge of sub-type maps inserts the source sub-type under a
\* key only the source has, merges the source sub-type into the destination's
\* under a key both have (fields, code blocks and names appended, the token
\* kept), leaves a key only the destination has untouched, and yields the
\* union of the keys; a key only the destination has is untouched on failure
\* too.
C10_SubTypeMapMerge ==
    (SameKind /\ pre.kind = "Interface") =>
        LET d == pre.body.sub_types
            s == src.body.sub_types
            m == dst.body.sub_types
        IN  /\ \A k \in DOMAIN d \ DOMAIN s : k \in DOMAIN m /\ m[k] = d[k]
            /\ res = Ok =>
                 /\ DOMAIN m = DOMAIN d \cup DOMAIN s
                 /\ \A k \in DOMAIN s \ DOMAIN d : m[k] = s[k]
                 /\ \A k \in DOMAIN s \cap DOMAIN d :
                        /\ m[k].pos = d[k].pos
                        /\ m[k].fields = d[k].fields \o s[k].fields
                        /\ m[k].codes = d[k].codes \o s[k].codes
                        /\ m[k].names = d[k].names \o s[k].names
                        /\ NamesOf(d[k].fields) \cap NamesOf(s[k].fields) = {}

\* one key in both maps with fields on both sides, one key only in the source
C10_Witness ==
    /\ SameKind /\ pre.kind = "Interface" /\ res = Ok
    /\ \E k \in DOMAIN pre.body.sub_types \cap DOMAIN src.body.sub_types :
           pre.body.sub_types[k].fields # <<>> /\ src.body.sub_types[k].fields # <<>>
    /\ DOMAIN src.body.sub_types \ DOMAIN pre.body.sub_types # {}


\* the last call reached the code-block merge of the declaration's body: same
\* kind, not refused as an enum extension, and the field-list merge before it
\* returned Ok
CodesCall ==
    /\ SameKind
    /\ pre.kind \in BackendKinds
    /\ ~(ir = "core" /\ pre.kind = "Enum"
           /\ (src.body.variants # <<>> \/ src.body.fields # <<>>))
    /\ FieldsMerge(pre.body.fields, src.body.fields).err = Ok

\* C11: merging code blocks never fails and never deduplicates: after the
\* code-block merge the destination holds its former code blocks followed by
\* all code blocks of the source, each in its original order, so the length is
\* the sum of both lengths; a Type, Tuple or Enum merge that got that far
\* returns Ok, an Interface merge can then only fail in its sub-types.
C11_CodesAppend ==
    CodesCall =>
      LET d == dst.body.codes
          p == pre.body.codes
          s == src.body.codes
      IN  /\ Len(d) = Len(p) + Len(s)
          /\ \A i \in 1..Len(p) : d[i] = p[i]
          /\ \A i \in 1..Len(s) : d[Len(p) + i] = s[i]
          /\ pre.kind # "Interface" => res = Ok
          /\ res # Ok => /\ res.kind = "FieldConflict"
                         /\ ContainerOf(res.first) \in Keys

\* both sides hold a code block of the same text, the source holds two
C11_Witness ==
    /\ CodesCall
    /\ Len(pre.body.codes) >= 1
    /\ Len(src.body.codes) >= 2
    /\ pre.body.codes[1].text = src.body.codes[1].text
    /\ Len(dst.body.codes) = Len(pre.body.codes) + Len(src.body.codes)


(***************************************************************************)
(* The language server's workspace (lib/languageserver/workspace.rs).      *)
(*                                                                         *)
(* A file is taken as the parser hands it over: its `use` declarations and *)
(* its declarations, each with the spans of its tokens, or a parse error.  *)
(* Every `use` and every declaration is written on a line of its own.      *)
(***************************************************************************)
\* Option: None, Some(x)
None == <<>>
Some(x) == <<x>>
Get(option) == option[1]

\* What the surroundings of the workspace may do in one run: the tokens of
\* text written into its files (see Weight) and the failures of the file
\* system to read a manifest or a source, all taken together.
MaxTokens == 2

\* The packages of the repository, by their parts, and ast::Package::Error.
Pkgs == {<<"p">>, <<"lib", "q">>}
PkgError == [kind |-> "Error"]
Package(parts) == [kind |-> "Package", parts |-> parts]
\* `as` aliases and type prefixes, version ranges as written, names.
Aliases == {"q"}
RangeTexts == {"1", "bad"}
DeclName == "T"
TypeName == "X"
PrimName == "u32"

Last(s) == s[Len(s)]

\* ast::UseDecl {package, range, alias, endl}
AllUses ==
    [package : {Package(p) : p \in Pkgs} \cup {PkgError},
     range : {None} \cup {Some(r) : r \in RangeTexts},
     alias : {None} \cup {Some(a) : a \in Aliases}, endl : BOOLEAN]

\* ast::Type: a primitive, a name with or without prefix, an array, a map
Leaves == {[kind |-> "prim"]} \cup {[kind |-> "name", prefix |-> x] : x \in {None} \cup {Some(a) : a \in Aliases}}
Tys ==
    Leaves \cup {[kind |-> "array", inner |-> x] : x \in Leaves}
           \cup {[kind |-> "map", key |-> x, value |-> y] : x, y \in Leaves}

\* ast::Decl: an enum (no field types), or a declaration with one type in it
\* (the field of a type, tuple or interface, the channel of an endpoint)
AllDecls == {[kind |-> "Enum"]} \cup {[kind |-> "Type", ty |-> t] : t \in Tys}

\* a text the parser gives up on, and the empty text
ParseError == [error |-> TRUE, uses |-> <<>>, decls |-> <<>>]
EmptyFile == [error |-> FALSE, uses |-> <<>>, decls |-> <<>>]

\* size of a text in tokens: one for a `use` with or without alias and for a
\* field of a named type, one more for everything else there is to a line
UseWeight(u) ==
    1 + (IF u.range = None THEN 0 ELSE 1) + (IF u.endl THEN 0 ELSE 1)
      + (IF u.package = PkgError THEN 1 ELSE 0)

TyWeight(t) == IF t.kind = "name" THEN 1 ELSE 2

DeclWeight(d) == IF d.kind = "Enum" THEN 2 ELSE TyWeight(d.ty)

RECURSIVE UseSeqs(_)
UseSeqs(n) ==
    {<<>>} \cup UNION {{<<u>> \o rest : rest \in UseSeqs(n - UseWeight(u))} :
                        u \in {x \in AllUses : UseWeight(x) <= n}}

RECURSIVE DeclSeqs(_)
DeclSeqs(n) ==
    {<<>>} \cup UNION {{<<d>> \o rest : rest \in DeclSeqs(n - DeclWeight(d))} :
                        d \in {x \in AllDecls : DeclWeight(x) <= n}}

UsesWeight(us) ==
    LET sum[i \in 0..Len(us)] == IF i = 0 THEN 0 ELSE sum[i - 1] + UseWeight(us[i])
    IN  sum[Len(us)]

DeclsWeight(ds) ==
    LET sum[i \in 0..Len(ds)] == IF i = 0 THEN 0 ELSE sum[i - 1] + DeclWeight(ds[i])
    IN  sum[Len(ds)]

Weight(c) == IF c = ParseError THEN 2 ELSE UsesWeight(c.uses) + DeclsWeight(c.decls)

\* the texts of at most n tokens
Contents(n) ==
    (IF n >= 2 THEN {ParseError} ELSE {})
    \cup UNION {{[error |-> FALSE, uses |-> us, decls |-> ds] :
                   ds \in DeclSeqs(n - UsesWeight(us))} : us \in UseSeqs(n)}

(***************************************************************************)
(* Spans and positions.  A span is a pair of byte offsets; span_to_range   *)
(* turns it into a Range of two Positions (line, col).                     *)
(***************************************************************************)
UseLine == <<"use", "head", "last", " ", "range", "as", "alias", " ", ";", "\n">>
DeclLine == <<"name", "prefix1", "::1", "part1", ",", "prefix2", "::2", "part2", "}", "\n">>
LineLen == Len(UseLine)

ColOf(line, token) == (CHOOSE i \in DOMAIN line : line[i] = token) - 1

\* the span from the first byte of token `from` to the last byte of token `to`
\* on line k
SpanOf(k, line, from, to) ==
    [start |-> k * LineLen + ColOf(line, from), end |-> k * LineLen + ColOf(line, to) + 1]

PositionAt(offset) == [line |-> offset \div LineLen, col |-> offset % LineLen]

\* Source::span_to_range(span, Encoding::Utf16) on one-byte characters
SpanToRange(span) == [start |-> PositionAt(span.start), end |-> PositionAt(span.end)]

\* #[derive(PartialOrd, Ord)] on Position {line, col}
PosLeq(a, b) == a.line < b.line \/ (a.line = b.line /\ a.col <= b.col)

\* Range::contains
Contains(r, p) == PosLeq(r.start, p) /\ PosLeq(p, r.end)

\* BTreeMap::insert, HashMap::insert
Insert(m, k, v) == [x \in DOMAIN m \cup {k} |-> IF x = k THEN v ELSE m[x]]

(***************************************************************************)
(* LoadedFile                                                              *)
(***************************************************************************)
NewLoaded(url) ==
    [url |-> url, jumps |-> EmptyMap, completions |-> EmptyMap, renames |-> EmptyMap,
     prefix_ranges |-> EmptyMap, implicit_prefixes |-> EmptyMap, prefixes |-> EmptyMap,
     symbols |-> EmptyMap, symbol |-> EmptyMap, diag |-> <<>>]

\* LoadedFile::clear: implicit_prefixes is not among the fields it clears
Clear(l) ==
    [l EXCEPT !.symbols = EmptyMap, !.symbol = EmptyMap, !.prefixes = EmptyMap,
              !.jumps = EmptyMap, !.completions = EmptyMap, !.renames = EmptyMap,
              !.prefix_ranges = EmptyMap, !.diag = <<>>]

InsertJump(l, span, jump) ==
    LET range == SpanToRange(span)
    IN  [l EXCEPT !.jumps = Insert(@, range.start, [range |-> range, value |-> jump])]

InsertCompletion(l, span, completion) ==
    LET range == SpanToRange(span)
    IN  [l EXCEPT !.completions =
                    Insert(@, range.start, [range |-> range, value |-> completion])]

ImplicitPrefix(l, prefix, span) ==
    [l EXCEPT !.implicit_prefixes = Insert(@, prefix, SpanToRange(span).start)]

RenamePrefix(prefix) == [kind |-> "Prefix", prefix |-> prefix]

RegisterRenamePrefix(l, prefix, span) ==
    LET range == SpanToRange(span)
    IN  [l EXCEPT !.renames =
                    Insert(@, range.start, [range |-> range, value |-> RenamePrefix(prefix)])]

RegisterPrefix(l, prefix, span) ==
    LET range == SpanToRange(span)
        old == IF prefix \in DOMAIN l.prefix_ranges THEN l.prefix_ranges[prefix] ELSE <<>>
    IN  [l EXCEPT !.renames =
                    Insert(@, range.start, [range |-> range, value |-> RenamePrefix(prefix)]),
                  !.prefix_ranges = Insert(@, prefix, Append(old, range))]

(***************************************************************************)
(* Workspace::process_ty, process_decl and the declarations loop of        *)
(* inner_process.  `slot` is the place of the type on the line.            *)
(***************************************************************************)
PrefixTok == <<"prefix1", "prefix2">>
PartTok == <<"part1", "part2">>

\* Workspace::type_completion on the text of the type
TypeCompletion(ty) ==
    [kind |-> "Absolute",
     prefix |-> IF ty.kind = "name" THEN ty.prefix ELSE None,
     path |-> <<>>,
     suffix |-> IF ty.kind = "name" THEN TypeName ELSE PrimName]

\* Workspace::jumps for ast::Name::Absolute {prefix, parts}
Jumps(l, ty, k, slot) ==
    LET part == SpanOf(k, DeclLine, PartTok[slot], PartTok[slot])
        absolute == [kind |-> "Absolute", prefix |-> ty.prefix, path |-> <<TypeName>>]
        l1 == IF ty.prefix = None THEN l
              ELSE InsertJump(l, SpanOf(k, DeclLine, PrefixTok[slot], PrefixTok[slot]),
                              [kind |-> "Prefix", prefix |-> Get(ty.prefix)])
    IN  InsertJump(l1, part, absolute)

\* variant: a type inside an array or a map is not looked at
ProcessTyFlat(l, ty, k, slot) ==
    IF ty.kind \in {"array", "map"} THEN l
    ELSE LET prefixed == ty.kind = "name" /\ ty.prefix # None
             first == IF prefixed THEN PrefixTok[slot] ELSE PartTok[slot]
             l1 == IF prefixed
                   THEN RegisterPrefix(l, Get(ty.prefix),
                                       SpanOf(k, DeclLine, PrefixTok[slot], PrefixTok[slot]))
                   ELSE l
             l2 == IF ty.kind = "name" THEN Jumps(l1, ty, k, slot) ELSE l1
         IN  InsertCompletion(l2, SpanOf(k, DeclLine, first, PartTok[slot]),
                              TypeCompletion(ty))

RECURSIVE ProcessTy(_, _, _, _)
ProcessTy(l, ty, k, slot) ==
    CASE ty.kind = "array" -> ProcessTy(l, ty.inner, k, slot)
      [] ty.kind = "map" -> ProcessTy(ProcessTy(l, ty.key, k, 1), ty.value, k, 2)
      [] OTHER ->
           LET prefixed == ty.kind = "name" /\ ty.prefix # None
               first == IF prefixed THEN PrefixTok[slot] ELSE PartTok[slot]
               l1 == IF prefixed
                     THEN RegisterPrefix(l, Get(ty.prefix),
                                         SpanOf(k, DeclLine, PrefixTok[slot], PrefixTok[slot]))
                     ELSE l
               l2 == IF ty.kind = "name" THEN Jumps(l1, ty, k, slot) ELSE l1
           IN  InsertCompletion(l2, SpanOf(k, DeclLine, first, PartTok[slot]),
                                TypeCompletion(ty))

\* Workspace::process_decl
ProcessDecl(l, decl, k) ==
    IF decl.kind = "Enum" THEN l ELSE ProcessTy(l, decl.ty, k, 1)

\* inner_process, the loop over the declarations: decls[i] is on line first + i - 1
RECURSIVE ProcessDecls(_, _, _, _)
ProcessDecls(l, decls, i, first) ==
    IF i > Len(decls) THEN l
    ELSE LET k == first + i - 1
             known == IF <<>> \in DOMAIN l.symbols THEN l.symbols[<<>>] ELSE <<>>
             l1 == [l EXCEPT !.symbols = Insert(@, <<>>, Append(known, DeclName)),
                             !.symbol = Insert(@, <<DeclName>>,
                                               SpanOf(k, DeclLine, "name", "name"))]
         IN  ProcessDecls(ProcessDecl(l1, decls[i], k), decls, i + 1, first)

(***************************************************************************)
(* The resolver handed to the workspace (env::resolver) is not part of the *)
(* sources at hand; it follows the resolver contract of the design: the    *)
(* versions of the package that match the range, newest first.             *)
(***************************************************************************)
Url(package, version) == [package |-> package, version |-> version]

\* core::Range::any() is written "*"
Required(package, range) == [package |-> package, range |-> range]

Matches(version, range) == range = "*" \/ (range = "1" /\ version = 1)

Resolve(required) ==
    LET versions == SelectSeq(repo[required.package], LAMBDA v : Matches(v, required.range))
    IN  [i \in 1..Len(versions) |->
           [version |-> versions[i], source |-> Url(required.package, versions[i])]]

\* Resolver::resolve_by_prefix as Workspace::package_completion uses it on the
\* text of the package: the packages under the parts before the last one,
\* their next part kept when it starts with the last part written
PackageCompletion(package) ==
    IF package = PkgError THEN [kind |-> "Package", results |-> {}]
    ELSE LET parts == package.parts
             n == Len(parts) - 1
             under == {r \in Pkgs : /\ repo[r] # <<>>
                                    /\ Len(r) > n
                                    /\ SubSeq(r, 1, n) = SubSeq(parts, 1, n)}
         IN  [kind |-> "Package",
              results |-> {r[n + 1] : r \in {x \in under : x[n + 1] = Last(parts)}}]

(***************************************************************************)
(* Workspace::inner_process, one round of the loop over the uses: what it  *)
(* does before it calls process for the package, and after.  The use is on *)
(* line k.                                                                 *)
(***************************************************************************)
PackageSpan(u, k) ==
    IF u.package # PkgError /\ Len(u.package.parts) = 1 THEN SpanOf(k, UseLine, "last", "last")
    ELSE SpanOf(k, UseLine, "head", "last")

UseSpan(k) == SpanOf(k, UseLine, "use", ";")

RequiredOf(u) == Required(u.package.parts, IF u.range = None THEN "*" ELSE Get(u.range))

BeforeCall(l, u, k) ==
    IF u.range = Some("bad") THEN [loaded |-> l, call |-> FALSE, prefix |-> None]
    ELSE LET l1 == InsertCompletion(l, PackageSpan(u, k), PackageCompletion(u.package))
         IN  IF u.package = PkgError \/ ~u.endl
             THEN [loaded |-> l1, call |-> FALSE, prefix |-> None]
             ELSE IF u.alias # None
             THEN [loaded |-> RegisterPrefix(l1, Get(u.alias),
                                             SpanOf(k, UseLine, "alias", "alias")),
                   call |-> TRUE, prefix |-> u.alias]
             ELSE LET suffix == Last(u.package.parts)
                  IN  [loaded |-> RegisterRenamePrefix(
                                    ImplicitPrefix(l1, suffix, SpanOf(k, UseLine, ";", ";")),
                                    suffix, SpanOf(k, UseLine, "last", "last")),
                       call |-> TRUE, prefix |-> Some(suffix)]

AfterCall(l, k, prefix, package) ==
    LET l1 == InsertJump(l, UseSpan(k), [kind |-> "Package", prefix |-> Get(prefix)])
    IN  IF package = None THEN l1
        ELSE [l1 EXCEPT !.prefixes =
                          Insert(@, Get(prefix), [span |-> UseSpan(k), package |-> Get(package)])]

(***************************************************************************)
(* Workspace::process up to the call of inner_process and the parse in it. *)
(* The outcomes: it returns at once ("ret": the memoized package, or None  *)
(* for a package that does not resolve or a path that does not             *)
(* canonicalize), it fails reading the source ("err"), or it goes on with  *)
(* the uses of the parsed file ("push").  A failing resolver is answered   *)
(* like one that finds nothing; every source of the resolver has a path.   *)
(* `cost` is what the outcome takes of the failures a run may see.         *)
(***************************************************************************)
\* the io::Error that `?` hands up, with the call that met it
IoError(what) == [kind |-> "Err", what |-> what]

UsesOf(url) == content[url.package].uses
DeclsOf(url) == content[url.package].decls

\* parser::parse reports what it could not read
Parse(l) ==
    IF content[l.url.package].error
    THEN [l EXCEPT !.diag = Append(@, [kind |-> "Error", span |-> [start |-> 0, end |-> 1]])]
    ELSE l

Returned(w, ret) == [tag |-> "ret", ws |-> w, ret |-> ret, cost |-> 0]

\* variant: the package is resolved and read whether or not lookup has it
EnterAgain(w, required) ==
    LET resolved == Resolve(required) IN
    IF resolved = <<>> THEN {Returned(w, None)}
    ELSE LET r == Last(resolved)
             url == r.source
             versioned == [package |-> required.package, version |-> r.version]
             w1 == [w EXCEPT !.lookup = Insert(@, required, versioned),
                             !.loaded_files = @ \cup {url}]
         IN  {[tag |-> "push", ws |-> w1, cost |-> 0,
               frame |-> [required |-> required, versioned |-> versioned, url |-> url,
                          edited |-> FALSE, loaded |-> Parse(NewLoaded(url)), i |-> 1,
                          prefix |-> None]]}

\* variant: a package that does not resolve is an error handed up
EnterStrict(w, required) ==
    IF required \in DOMAIN w.lookup THEN {Returned(w, Some(w.lookup[required]))}
    ELSE IF Resolve(required) = <<>>
    THEN {[tag |-> "err", ws |-> w, error |-> IoError("resolve"), cost |-> 0]}
    ELSE LET r == Last(Resolve(required))
             versioned == [package |-> required.package, version |-> r.version]
             w1 == [w EXCEPT !.lookup = Insert(@, required, versioned),
                             !.loaded_files = @ \cup {r.source}]
         IN  {[tag |-> "push", ws |-> w1, cost |-> 0,
               frame |-> [required |-> required, versioned |-> versioned, url |-> r.source,
                          edited |-> FALSE, loaded |-> Parse(NewLoaded(r.source)), i |-> 1,
                          prefix |-> None]]}

Enter(w, required) ==
    IF required \in DOMAIN w.lookup THEN {Returned(w, Some(w.lookup[required]))}
    ELSE LET resolved == Resolve(required) IN
         IF resolved = <<>> THEN {Returned(w, None)}
         ELSE LET r == Last(resolved)
                  url == r.source
                  versioned == [package |-> required.package, version |-> r.version]
                  w1 == [w EXCEPT !.lookup = Insert(@, required, versioned)]
                  w2 == [w1 EXCEPT !.loaded_files = @ \cup {url}]
                  edited == url \in DOMAIN w2.edited_files
                  w3 == IF edited
                        THEN [w2 EXCEPT !.edited_files =
                                          [x \in DOMAIN @ \ {url} |-> w2.edited_files[x]]]
                        ELSE w2
                  loaded == IF edited THEN Clear(w2.edited_files[url]) ELSE NewLoaded(url)
              IN  {Returned(w1, None),
                   [tag |-> "err", ws |-> w3, error |-> IoError("read"), cost |-> 1],
                   [tag |-> "push", ws |-> w3, cost |-> 0,
                    frame |-> [required |-> required, versioned |-> versioned, url |-> url,
                               edited |-> edited, loaded |-> Parse(loaded), i |-> 1,
                               prefix |-> None]]}

(***************************************************************************)
(* Workspace::file, the Resolver the workspace itself is for the compiler, *)
(* and the queries.                                                        *)
(***************************************************************************)
File(w, url) ==
    IF url \in DOMAIN w.edited_files THEN Some(w.edited_files[url])
    ELSE IF url \in DOMAIN w.files THEN Some(w.files[url])
    ELSE None

\* impl Resolver for Workspace
WorkspaceResolve(w, required) ==
    IF /\ required \in DOMAIN w.lookup
       /\ w.lookup[required] \in DOMAIN w.packages
       /\ File(w, w.packages[w.lookup[required]]) # None
    THEN <<[version |-> w.lookup[required].version,
            source |-> w.packages[w.lookup[required]]]>>
    ELSE <<>>

\* BTreeMap::range((Unbounded, Included(end))).next_back(): the entry of the
\* greatest key that is not above `end`
NextBack(map, end) ==
    LET below == {k \in DOMAIN map : PosLeq(k, end)}
    IN  IF below = {} THEN None
        ELSE Some(map[CHOOSE k \in below : \A x \in below : PosLeq(x, k)])

\* what find_completion and find_jump have in common
Find(map, end) ==
    LET entry == NextBack(map, end)
    IN  IF entry = None THEN None
        ELSE IF ~Contains(Get(entry).range, end) THEN None
        ELSE Some(Get(entry).value)

FindCompletion(w, url, position) ==
    IF File(w, url) = None THEN None
    ELSE Find(Get(File(w, url)).completions, position)

FindJump(w, url, position) ==
    IF File(w, url) = None THEN None
    ELSE Find(Get(File(w, url)).jumps, position)

FindRename(w, url, position) ==
    IF File(w, url) = None THEN None
    ELSE LET file == Get(File(w, url))
             value == Find(file.renames, position)
         IN  IF value = None THEN None
             ELSE LET prefix == Get(value).prefix IN
                  IF prefix \notin DOMAIN file.prefix_ranges THEN None
                  ELSE IF prefix \in DOMAIN file.implicit_prefixes
                  THEN Some([kind |-> "ImplicitPackage",
                             ranges |-> file.prefix_ranges[prefix],
                             position |-> file.implicit_prefixes[prefix]])
                  ELSE Some([kind |-> "Local", ranges |-> file.prefix_ranges[prefix]])

(***************************************************************************)
(* The workspace as a state machine.  reload clears the maps and calls     *)
(* process for every package of the manifest; process calls inner_process, *)
(* which calls process for every `use` of the file: the calls in progress  *)
(* are the frames of `stack`, the innermost first.                         *)
(***************************************************************************)
Manifest == <<Required(<<"p">>, "*")>>

\* the versions of a published package, as the resolver lists them
Published == <<2, 1>>

\* a file the workspace never loads
Unknown == [package |-> <<"none">>, version |-> 0]

\* the files a query can be about
Known(w) == DOMAIN w.files \cup DOMAIN w.edited_files \cup {Unknown}

Positions == [line : 0..MaxTokens, col : 0..(LineLen - 1)]

\* Workspace::new
EmptyWorkspace ==
    [packages |-> EmptyMap, loaded_files |-> {}, files |-> EmptyMap, lookup |-> EmptyMap,
     edited_files |-> EmptyMap]

NoAnswer == [kind |-> "None"]

\* The package of the manifest is published; the package it may use is
\* published or not.
WsInit ==
    /\ repo \in {[p \in Pkgs |-> IF p = Manifest[1].package THEN Published ELSE v] :
                   v \in {<<>>, Published}}
    /\ content = [p \in Pkgs |-> EmptyFile]
    /\ ws = EmptyWorkspace
    /\ ctx = {}
    /\ stack = <<>>
    /\ todo = <<>>
    /\ pc = "idle"
    /\ wres = NoCall
    /\ spent = 0
    /\ ans = NoAnswer
    /\ MergeOff /\ CliOff /\ GoOff /\ JavaOff /\ ObjectsOff

\* variant: reload starts over the files it has, and drops the rest
StartReloadOver(w, cost) ==
    /\ ws' = [w EXCEPT !.packages = EmptyMap, !.loaded_files = {}, !.lookup = EmptyMap]
    /\ \E manifest \in {"absent", "unreadable", "read"} :
         CASE manifest = "absent" ->
                /\ spent + cost < MaxTokens
                /\ spent' = spent + cost + 1
                /\ wres' = Ok
                /\ UNCHANGED <<pc, todo>>
           [] manifest = "unreadable" ->
                /\ spent + cost < MaxTokens
                /\ spent' = spent + cost + 1
                /\ wres' = IoError("manifest")
                /\ UNCHANGED <<pc, todo>>
           [] manifest = "read" ->
                /\ spent' = spent + cost
                /\ wres' = NoCall
                /\ pc' = "reload"
                /\ todo' = Manifest
    /\ ans' = NoAnswer

\* Workspace::reload up to its loop over the packages of the manifest, on the
\* workspace w, after the surroundings have spent `cost`
StartReload(w, cost) ==
    /\ ws' = [w EXCEPT !.packages = EmptyMap, !.files = EmptyMap, !.loaded_files = {},
                       !.lookup = EmptyMap]
    /\ \E manifest \in {"absent", "unreadable", "read"} :
         CASE manifest = "absent" ->
                /\ spent + cost < MaxTokens
                /\ spent' = spent + cost + 1
                /\ wres' = Ok
                /\ UNCHANGED <<pc, todo>>
           [] manifest = "unreadable" ->
                /\ spent + cost < MaxTokens
                /\ spent' = spent + cost + 1
                /\ wres' = IoError("manifest")
                /\ UNCHANGED <<pc, todo>>
           [] manifest = "read" ->
                /\ spent' = spent + cost
                /\ wres' = NoCall
                /\ pc' = "reload"
                /\ todo' = Manifest
    /\ ans' = NoAnswer

\* The text of a package's file changes, in the editor or on disk, and the
\* language server reloads the workspace.
Write ==
    /\ pc = "idle"
    /\ \E p \in Pkgs : \E c \in Contents(MaxTokens - spent) :
         /\ c # content[p]
         /\ content' = [content EXCEPT ![p] = c]
         /\ StartReload(ws, Weight(c))
    /\ UNCHANGED <<mergeVars, cli, go, java, objects, repo, ctx, stack>>

\* The editor opens a file of the workspace: it is kept in edited_files from
\* now on, and the language server reloads the workspace.
Open ==
    /\ pc = "idle"
    /\ \E url \in ws.loaded_files \ DOMAIN ws.edited_files :
         StartReload([ws EXCEPT !.edited_files = Insert(@, url, NewLoaded(url))], 0)
    /\ UNCHANGED <<mergeVars, cli, go, java, objects, repo, content, ctx, stack>>

\* Workspace::reload, asked for as it is
Reload ==
    /\ pc = "idle"
    /\ StartReload(ws, 0)
    /\ UNCHANGED <<mergeVars, cli, go, java, objects, repo, content, ctx, stack>>

\* an error on the way up: every call in progress returns it, and so does reload
Fail(w, error) ==
    /\ ws' = w
    /\ stack' = <<>>
    /\ todo' = <<>>
    /\ pc' = "idle"
    /\ wres' = error

\* reload calls process for the next package of the manifest
ProcessRoot ==
    /\ pc = "reload" /\ stack = <<>> /\ todo # <<>>
    /\ \E o \in Enter(ws, Head(todo)) :
         /\ spent + o.cost <= MaxTokens
         /\ spent' = spent + o.cost
         /\ CASE o.tag = "ret" ->
                   ws' = o.ws /\ todo' = Tail(todo) /\ UNCHANGED <<stack, pc, wres>>
              [] o.tag = "push" ->
                   ws' = o.ws /\ stack' = <<o.frame>> /\ UNCHANGED <<todo, pc, wres>>
              [] o.tag = "err" -> Fail(o.ws, o.error)
    /\ UNCHANGED <<mergeVars, cli, go, java, objects, repo, content, ctx, ans>>

\* inner_process takes the next `use` of the file and calls process for its package
UseStep ==
    /\ pc = "reload" /\ stack # <<>>
    /\ LET top == Head(stack)
           k == top.i - 1
       IN  /\ top.i <= Len(UsesOf(top.url))
           /\ LET u == UsesOf(top.url)[top.i]
                  b == BeforeCall(top.loaded, u, k)
              IN  IF ~b.call
                  THEN /\ stack' = <<[top EXCEPT !.loaded = b.loaded, !.i = @ + 1]>> \o Tail(stack)
                       /\ UNCHANGED <<ws, todo, pc, wres, spent>>
                  ELSE \E o \in Enter(ws, RequiredOf(u)) :
                         /\ spent + o.cost <= MaxTokens
                         /\ spent' = spent + o.cost
                         /\ CASE o.tag = "ret" ->
                                   /\ ws' = o.ws
                                   /\ stack' = <<[top EXCEPT
                                                    !.loaded = AfterCall(b.loaded, k, b.prefix, o.ret),
                                                    !.i = @ + 1]>> \o Tail(stack)
                                   /\ UNCHANGED <<todo, pc, wres>>
                              [] o.tag = "push" ->
                                   /\ ws' = o.ws
                                   /\ stack' = <<o.frame, [top EXCEPT !.loaded = b.loaded,
                                                                      !.prefix = b.prefix]>>
                                               \o Tail(stack)
                                   /\ UNCHANGED <<todo, pc, wres>>
                              [] o.tag = "err" -> Fail(o.ws, o.error)
    /\ UNCHANGED <<mergeVars, cli, go, java, objects, repo, content, ctx, ans>>

\* inner_process goes through the declarations and returns; process stores
\* the file and the package and returns Some(versioned) to its caller
ProcessReturn ==
    /\ pc = "reload" /\ stack # <<>>
    /\ LET top == Head(stack)
           loaded == ProcessDecls(top.loaded, DeclsOf(top.url), 1, Len(UsesOf(top.url)))
           w1 == IF top.edited
                 THEN [ws EXCEPT !.edited_files = Insert(@, top.url, loaded)]
                 ELSE [ws EXCEPT !.files = Insert(@, top.url, loaded)]
       IN  /\ top.i > Len(UsesOf(top.url))
           /\ ws' = [w1 EXCEPT !.packages = Insert(@, top.versioned, top.url)]
           /\ IF Len(stack) = 1
              THEN stack' = <<>> /\ todo' = Tail(todo)
              ELSE LET caller == stack[2] IN
                   /\ stack' = <<[caller EXCEPT
                                    !.loaded = AfterCall(caller.loaded, caller.i - 1,
                                                         caller.prefix, Some(top.versioned)),
                                    !.i = @ + 1, !.prefix = None]>> \o Tail(Tail(stack))
                   /\ UNCHANGED todo
    /\ UNCHANGED <<mergeVars, cli, go, java, objects, repo, content, ctx, pc, wres, spent, ans>>

(***************************************************************************)
(* try_compile.  The compiler's environment (lang.into_env, env.import,    *)
(* lang.compile) is not part of the sources at hand; it follows the        *)
(* design: it imports the packages of the manifest through the workspace   *)
(* as resolver, follows the uses of every file it reads, and reports a use *)
(* that does not resolve as an error with the span of the package.         *)
(***************************************************************************)
WellFormed(u) == u.package # PkgError /\ u.range # Some("bad")

RECURSIVE Imported(_)
Imported(S) ==
    LET more == {WorkspaceResolve(ws, RequiredOf(UsesOf(url)[i]))[1].source :
                   <<url, i>> \in {x \in S \X (1..MaxTokens) :
                                     /\ x[2] \in DOMAIN UsesOf(x[1])
                                     /\ WellFormed(UsesOf(x[1])[x[2]])
                                     /\ WorkspaceResolve(ws, RequiredOf(UsesOf(x[1])[x[2]])) # <<>>}}
    IN  IF more \subseteq S THEN S ELSE Imported(S \cup more)

Roots ==
    {WorkspaceResolve(ws, Manifest[i])[1].source :
       i \in {x \in DOMAIN Manifest : WorkspaceResolve(ws, Manifest[x]) # <<>>}}

CompileDiagnostics ==
    {[source |-> x[1], kind |-> "Error", span |-> PackageSpan(UsesOf(x[1])[x[2]], x[2] - 1)] :
       x \in {y \in Imported(Roots) \X (1..MaxTokens) :
                /\ y[2] \in DOMAIN UsesOf(y[1])
                /\ WellFormed(UsesOf(y[1])[y[2]])
                /\ WorkspaceResolve(ws, RequiredOf(UsesOf(y[1])[y[2]])) = <<>>}}

\* the end of reload: try_compile, whose errors are logged and dropped
TryCompile ==
    /\ pc = "reload" /\ stack = <<>> /\ todo = <<>>
    /\ ctx' = CompileDiagnostics
    /\ wres' = Ok
    /\ pc' = "idle"
    /\ UNCHANGED <<mergeVars, cli, go, java, objects, repo, content, ws, stack, todo, spent, ans>>

\* The editor asks at a position of a file.  The answers for every file and
\* every position are recorded.
AskCompletion ==
    /\ pc = "idle"
    /\ ans' = [kind |-> "completion",
               at |-> [url \in Known(ws) |->
                         [p \in Positions |-> FindCompletion(ws, url, p)]]]
    /\ UNCHANGED <<mergeVars, cli, go, java, objects, repo, content, ws, ctx, stack, todo, pc, wres, spent>>

AskJump ==
    /\ pc = "idle"
    /\ ans' = [kind |-> "jump",
               at |-> [url \in Known(ws) |-> [p \in Positions |-> FindJump(ws, url, p)]]]
    /\ UNCHANGED <<mergeVars, cli, go, java, objects, repo, content, ws, ctx, stack, todo, pc, wres, spent>>

AskRename ==
    /\ pc = "idle"
    /\ ans' = [kind |-> "rename",
               at |-> [url \in Known(ws) |-> [p \in Positions |-> FindRename(ws, url, p)]]]
    /\ UNCHANGED <<mergeVars, cli, go, java, objects, repo, content, ws, ctx, stack, todo, pc, wres, spent>>

WsNext ==
    \/ Write \/ Open \/ Reload
    \/ ProcessRoot \/ UseStep \/ ProcessReturn \/ TryCompile
    \/ AskCompletion \/ AskJump \/ AskRename

WsSpec == WsInit /\ [][WsNext]_vars

\* reload is one call: once begun, it runs on until it returns
ReloadStep == ProcessRoot \/ UseStep \/ ProcessReturn \/ TryCompile

WsLive == WsSpec /\ WF_vars(ReloadStep)

(***************************************************************************)
(* Properties of the workspace                                             *)
(***************************************************************************)
\* the entry of `map` with the largest start among those whose range contains p
LargestContaining(map, p) ==
    LET containing == {k \in DOMAIN map : Contains(map[k].range, p)}
    IN  IF containing = {} THEN None
        ELSE Some(map[CHOOSE k \in containing : \A x \in containing : PosLeq(x, k)].value)

\* the map of recorded ranges a query of the given kind looks into
RecordedRanges(kind, file) ==
    CASE kind = "completion" -> file.completions
      [] kind = "jump" -> file.jumps
      [] kind = "rename" -> file.renames

\* what the claim has the query answer at position p of the file at url
Claimed(kind, url, p) ==
    IF File(ws, url) = None THEN None
    ELSE LargestContaining(RecordedRanges(kind, Get(File(ws, url))), p)

\* C12: find_completion, find_jump and find_rename, asked for position p of a
\* file, answer with the value of the recorded range with the largest start
\* among the ranges that contain p, and with nothing only when no recorded
\* range of the file contains p or the file is unknown.
C12_LargestContainingRange ==
    ans # NoAnswer =>
      \A url \in DOMAIN ans.at : \A p \in Positions :
        /\ ans.at[url][p] = None <=> Claimed(ans.kind, url, p) = None
        /\ ans.kind \in {"completion", "jump"} => ans.at[url][p] = Claimed(ans.kind, url, p)

\* C13: when the resolver lists several matching versions of a required
\* package, newest first, the workspace loads the newest one and records that
\* version for the package in lookup and in packages.
C13_NewestVersionLoaded ==
    \A required \in DOMAIN ws.lookup :
      LET resolved == Resolve(required)
      IN  Len(resolved) > 1 =>
            /\ ws.lookup[required].version = Head(resolved).version
            /\ \A versioned \in DOMAIN ws.packages :
                 versioned.package = required.package =>
                   /\ versioned.version = Head(resolved).version
                   /\ ws.packages[versioned] = Head(resolved).source

\* the `use` inner_process is about to call process for, in the file on top
\* of the stack
Calling ==
    /\ pc = "reload" /\ stack # <<>>
    /\ Head(stack).i <= Len(UsesOf(Head(stack).url))
    /\ BeforeCall(Head(stack).loaded, UsesOf(Head(stack).url)[Head(stack).i],
                  Head(stack).i - 1).call

CalledFor == RequiredOf(UsesOf(Head(stack).url)[Head(stack).i])

\* a file reaches itself through the uses of the files as they are
RECURSIVE UsedFrom(_)
UsedFrom(S) ==
    LET more == {u.package.parts :
                   u \in UNION {{content[x].uses[i] : i \in DOMAIN content[x].uses} : x \in S}}
               \cap Pkgs
    IN  IF more \subseteq S THEN S ELSE UsedFrom(S \cup more)

Cyclic ==
    \E x \in Pkgs : \E i \in DOMAIN content[x].uses :
      /\ content[x].uses[i].package # PkgError
      /\ content[x].uses[i].package.parts \in Pkgs
      /\ x \in UsedFrom({content[x].uses[i].package.parts})

\* a package that lookup has is not read again, and the call for it is
\* answered with the versioned package of lookup
MemoizedStep ==
    /\ Len(stack') > Len(stack) => Head(stack').required \notin DOMAIN ws.lookup
    /\ (Calling /\ CalledFor \in DOMAIN ws.lookup) =>
         /\ Len(stack') = Len(stack)
         /\ ws' = ws
         /\ Head(stack').i = Head(stack).i + 1
         /\ \E prefix \in DOMAIN Head(stack').loaded.prefixes :
              Head(stack').loaded.prefixes[prefix].package = ws.lookup[CalledFor]

\* C14: recursive import is cycle-safe.  A required package that lookup (the
\* visited set) already has is not resolved or parsed again within the reload
\* but answered with the memoized versioned package, and so every reload,
\* with or without a cycle among the `use` declarations, comes to its end.
C14_CycleSafe == [][MemoizedStep]_vars /\ (pc = "reload" ~> pc = "idle")

\* a reload of files that use one another in a cycle has ended, every file of
\* the cycle loaded once
C14_Witness ==
    /\ pc = "idle" /\ wres = Ok /\ Cyclic
    /\ \A x \in Pkgs : \E url \in DOMAIN ws.files : url.package = x
    /\ \A x \in Pkgs : content[x].uses # <<>>

\* a reload has gone through the packages of the manifest and through
\* try_compile
Reloaded == pc = "idle" /\ wres = Ok /\ ws.lookup # EmptyMap

\* the `use` declarations of a file that name a package no version of which
\* the repository has
UnresolvedUses(url) ==
    {i \in DOMAIN UsesOf(url) :
       /\ BeforeCall(NewLoaded(url), UsesOf(url)[i], i - 1).call
       /\ Resolve(RequiredOf(UsesOf(url)[i])) = <<>>}

\* the file has everything inner_process records for use i and for all its
\* declarations
UseProcessed(file, url, i) ==
    LET u == UsesOf(url)[i]
        b == BeforeCall(NewLoaded(url), u, i - 1)
        start == SpanToRange(PackageSpan(u, i - 1)).start
        all == UseSpan(i - 1)
    IN  /\ u.range # Some("bad") =>
             /\ start \in DOMAIN file.completions
             /\ file.completions[start].value = PackageCompletion(u.package)
        /\ b.call =>
             /\ SpanToRange(all).start \in DOMAIN file.jumps
             /\ file.jumps[SpanToRange(all).start].value =
                  [kind |-> "Package", prefix |-> Get(b.prefix)]
             /\ Resolve(RequiredOf(u)) # <<>> => RequiredOf(u) \in DOMAIN ws.lookup

DeclsProcessed(file, url) ==
    LET decls == DeclsOf(url)
        clean == [NewLoaded(url) EXCEPT !.renames = file.renames,
                                        !.prefix_ranges = file.prefix_ranges]
        done == ProcessDecls(clean, decls, 1, Len(UsesOf(url)))
    IN  /\ file.symbols = done.symbols
        /\ file.symbol = done.symbol
        /\ \A k \in DOMAIN done.completions :
             k \in DOMAIN file.completions /\ file.completions[k] = done.completions[k]
        /\ \A k \in DOMAIN done.jumps :
             k \in DOMAIN file.jumps /\ file.jumps[k] = done.jumps[k]

ImplicitNow(url) ==
    {Last(UsesOf(url)[i].package.parts) :
       i \in {j \in DOMAIN UsesOf(url) :
                /\ BeforeCall(NewLoaded(url), UsesOf(url)[j], j - 1).call
                /\ UsesOf(url)[j].alias = None}}

\* position p is on the alias of a `use ... as alias;` of the text of the
\* file as it is now, and no other `use` of the text makes the alias an
\* implicit prefix
OnAlias(url, p) ==
    \E i \in DOMAIN UsesOf(url) :
      /\ BeforeCall(NewLoaded(url), UsesOf(url)[i], i - 1).call
      /\ UsesOf(url)[i].alias # None
      /\ Get(UsesOf(url)[i].alias) \notin ImplicitNow(url)
      /\ Contains(SpanToRange(SpanOf(i - 1, UseLine, "alias", "alias")), p)

\* C16: an implicit prefix is never offered as a plain local rename: at a
\* position that resolves to a prefix recorded in implicit_prefixes,
\* find_rename answers ImplicitPackage (the ranges of the prefix, the recorded
\* end of the import) or nothing, never Local; and at a prefix declared with
\* an explicit `as` alias in the current contents of the file it answers
\* Local.
C16_ImplicitNeverLocal ==
    (Reloaded /\ ans.kind = "rename") =>
      \A url \in ws.loaded_files \cap DOMAIN ans.at : \A p \in Positions :
        LET file == Get(File(ws, url))
            at == Claimed("rename", url, p)
            answer == ans.at[url][p]
        IN  /\ (at # None /\ Get(at).prefix \in DOMAIN file.implicit_prefixes) =>
                 \/ answer = None
                 \/ /\ Get(answer).kind = "ImplicitPackage"
                    /\ Get(answer).ranges = file.prefix_ranges[Get(at).prefix]
                    /\ Get(answer).position = file.implicit_prefixes[Get(at).prefix]
            /\ OnAlias(url, p) => (answer # None /\ Get(answer).kind = "Local")

\* the files a finished reload has processed
Processed ==
    IF Reloaded THEN {Get(File(ws, url)) : url \in {x \in ws.loaded_files : File(ws, x) # None}}
    ELSE {}

\* the names of a type, each with its place on the line
NamedLeaves(ty) ==
    CASE ty.kind = "name" -> {<<ty, 1>>}
      [] ty.kind = "array" -> {<<ty.inner, 1>>} \cap ({x \in Leaves : x.kind = "name"} \X {1})
      [] ty.kind = "map" ->
           {<<ty.key, 1>>, <<ty.value, 2>>} \cap ({x \in Leaves : x.kind = "name"} \X {1, 2})
      [] OTHER -> {}

\* where the text of the file has prefix x as the alias of a `use` that
\* inner_process goes through with
AliasOccurrences(url, x) ==
    {SpanToRange(SpanOf(i - 1, UseLine, "alias", "alias")) :
       i \in {j \in DOMAIN UsesOf(url) :
                /\ BeforeCall(NewLoaded(url), UsesOf(url)[j], j - 1).call
                /\ UsesOf(url)[j].alias = Some(x)}}

\* where the text of the file has prefix x in a type reference x::Name
TypeOccurrences(url, x) ==
    UNION {{SpanToRange(SpanOf(Len(UsesOf(url)) + d - 1, DeclLine,
                               PrefixTok[n[2]], PrefixTok[n[2]])) :
              n \in {m \in NamedLeaves(DeclsOf(url)[d].ty) : m[1].prefix = Some(x)}} :
           d \in {e \in DOMAIN DeclsOf(url) : DeclsOf(url)[e].kind = "Type"}}

\* where the text of the file has x as the last part of the package of a `use`
\* without alias
ImplicitOccurrences(url, x) ==
    {SpanToRange(SpanOf(i - 1, UseLine, "last", "last")) :
       i \in {j \in DOMAIN UsesOf(url) :
                /\ BeforeCall(NewLoaded(url), UsesOf(url)[j], j - 1).call
                /\ UsesOf(url)[j].alias = None
                /\ Last(UsesOf(url)[j].package.parts) = x}}

Elements(seq) == {seq[i] : i \in DOMAIN seq}

Prefixes == Aliases \cup {Last(x) : x \in Pkgs}

\* C17 as stated: after a file is processed, every range that renames holds as
\* Rename::Prefix {p} is an element of prefix_ranges[p].
C17_Original ==
    \A file \in Processed : \A k \in DOMAIN file.renames :
      /\ file.renames[k].value.prefix \in DOMAIN file.prefix_ranges
      /\ file.renames[k].range \in Elements(file.prefix_ranges[file.renames[k].value.prefix])

\* C17, amended: after a file is processed, prefix_ranges[p] lists, each once,
\* the range of the alias of every `use ... as p;` and of the prefix of every
\* p::Name type reference of the file; every range that renames holds as
\* Rename::Prefix {p} is one of these or the range of the last part p of the
\* package of a `use` without alias, which is in renames only.
C17_PrefixRanges ==
    \A file \in Processed :
      /\ \A x \in Prefixes :
           LET occurrences == AliasOccurrences(file.url, x) \cup TypeOccurrences(file.url, x)
           IN  IF occurrences = {} THEN x \notin DOMAIN file.prefix_ranges
               ELSE /\ x \in DOMAIN file.prefix_ranges
                    /\ Elements(file.prefix_ranges[x]) = occurrences
                    /\ Len(file.prefix_ranges[x]) = Cardinality(occurrences)
      /\ DOMAIN file.prefix_ranges \subseteq Prefixes
      /\ \A k \in DOMAIN file.renames :
           LET x == file.renames[k].value.prefix
           IN  \/ /\ x \in DOMAIN file.prefix_ranges
                  /\ file.renames[k].range \in Elements(file.prefix_ranges[x])
               \/ file.renames[k].range \in ImplicitOccurrences(file.url, x)

\* a processed file with an alias, a type reference inside an array or a map
\* that has the alias for its prefix, or both, all in prefix_ranges
C17_Witness ==
    \E file \in Processed : \E x \in Aliases :
      /\ x \in DOMAIN file.prefix_ranges
      /\ \/ /\ AliasOccurrences(file.url, x) # {}
            /\ TypeOccurrences(file.url, x) # {}
         \/ Len(file.prefix_ranges[x]) > 1

\* the files the editor has, and those a call of process in progress has taken
\* out of edited_files to put them back when it returns
HeldOpen == DOMAIN ws.edited_files \cup {stack[k].url : k \in {j \in DOMAIN stack : stack[j].edited}}

\* C28: a file open in the editor stays open: when a reload returns, with or
\* without an error, every URL that was a key of edited_files when it began is
\* one still, and file(url) answers with the edited entry of the URL.
C28_EditedFilesKept ==
    [][/\ pc' = "idle" => HeldOpen \subseteq DOMAIN ws'.edited_files
       /\ \A url \in DOMAIN ws'.edited_files :
            File(ws', url) = Some(ws'.edited_files[url])]_vars

\* C29: between reloads the maps of the workspace agree: no URL is a key of
\* files and of edited_files, every key of files is in loaded_files, and every
\* URL of packages is in loaded_files and a key of files or of edited_files.
C29_MapsConsistent ==
    pc = "idle" =>
        /\ DOMAIN ws.files \cap DOMAIN ws.edited_files = {}
        /\ DOMAIN ws.files \subseteq ws.loaded_files
        /\ \A versioned \in DOMAIN ws.packages :
             /\ ws.packages[versioned] \in ws.loaded_files
             /\ ws.packages[versioned] \in DOMAIN ws.files \cup DOMAIN ws.edited_files

\* C26: LoadedFile::clear resets all state of the file: cleared, a file of
\* edited_files is as LoadedFile::new makes it, with implicit_prefixes empty
\* too, so that process starts on an edited file (cleared and parsed, before
\* its first `use`) from what it starts from on a file it creates.
C26_ClearResetsAll ==
    /\ \A url \in DOMAIN ws.edited_files : Clear(ws.edited_files[url]) = NewLoaded(url)
    /\ stack # <<>> /\ Head(stack).edited /\ Head(stack).i = 1
         => Head(stack).loaded = Parse(NewLoaded(Head(stack).url))

\* process is about to be called: by reload for a package of the manifest, or
\* by inner_process for the package of a `use`
Pending == (pc = "reload" /\ stack = <<>> /\ todo # <<>>) \/ Calling
PendingFor == IF stack = <<>> THEN Head(todo) ELSE CalledFor

\* an earlier call of this reload put the package into lookup and returned
\* None: the call is not in progress and did not get to packages.insert
AnsweredNone(required) ==
    /\ pc = "reload"
    /\ required \in DOMAIN ws.lookup
    /\ ws.lookup[required] \notin DOMAIN ws.packages
    /\ \A k \in DOMAIN stack : stack[k].required # required

\* C30: lookup agrees with what was loaded: within a reload a package that a
\* call of process answered with None is answered with None by the next call,
\* a package answered Some(v) from lookup has v in packages or being loaded,
\* after a reload every package of packages has a file, and resolve of the
\* workspace offers nothing for a package whose file was not located.
C30_LookupConsistent ==
    /\ Pending /\ AnsweredNone(PendingFor)
         => \A o \in Enter(ws, PendingFor) : o.tag = "ret" /\ o.ret = None
    /\ Pending /\ PendingFor \in DOMAIN ws.lookup
         => \/ ws.lookup[PendingFor] \in DOMAIN ws.packages
            \/ \E k \in DOMAIN stack : stack[k].versioned = ws.lookup[PendingFor]
    /\ Reloaded => \A versioned \in DOMAIN ws.packages :
                     File(ws, ws.packages[versioned]) # None
    /\ \A required \in DOMAIN ws.lookup :
         ws.lookup[required] \notin DOMAIN ws.packages
           => WorkspaceResolve(ws, required) = <<>>

\* the packages a file asks process for, one per `use` that gets that far
CallsOf(url) ==
    {RequiredOf(UsesOf(url)[i]) :
       i \in {j \in DOMAIN UsesOf(url) :
                BeforeCall(NewLoaded(url), UsesOf(url)[j], j - 1).call}}

\* the packages of the manifest and what the files they resolve to use, and so on
RECURSIVE Transitive(_)
Transitive(rs) ==
    LET more == rs \cup UNION {CallsOf(Last(Resolve(r)).source) :
                                 r \in {x \in rs : Resolve(x) # <<>>}}
    IN  IF more = rs THEN rs ELSE Transitive(more)

\* what a reload of the current manifest and texts can get to
Reached == {r \in Transitive({Manifest[k] : k \in DOMAIN Manifest}) : Resolve(r) # <<>>}
ReachedUrls == {Last(Resolve(r)).source : r \in Reached}
ReachedPackages == {[package |-> r.package, version |-> Last(Resolve(r)).version] : r \in Reached}

\* the maps hold nothing but what this reload made
FromThisReload ==
    /\ DOMAIN ws.lookup \subseteq Reached
    /\ DOMAIN ws.packages \subseteq ReachedPackages
    /\ \A versioned \in DOMAIN ws.packages : ws.packages[versioned] \in ReachedUrls
    /\ ws.loaded_files \subseteq ReachedUrls
    /\ DOMAIN ws.files \subseteq ReachedUrls

\* C25: reload is a full rebuild: when it returns, packages, files,
\* loaded_files and lookup hold only entries of the packages of the manifest
\* and of what they use in the current texts, nothing of an earlier reload;
\* with the manifest absent it returns Ok and the four maps are empty.
C25_FullRebuild ==
    /\ [](pc = "idle" => FromThisReload)
    /\ [][pc = "idle" /\ pc' = "idle" /\ spent' # spent /\ wres' = Ok
            => /\ ws'.packages = EmptyMap /\ ws'.files = EmptyMap
               /\ ws'.loaded_files = {} /\ ws'.lookup = EmptyMap]_vars

\* a file opened after an earlier reload had loaded it, and a later reload of
\* texts that no longer use it: nothing of it is left in the four maps
C25_Witness ==
    /\ Reloaded
    /\ \E url \in DOMAIN ws.edited_files :
         /\ url \notin ws.loaded_files /\ url \notin DOMAIN ws.files
         /\ \A versioned \in DOMAIN ws.packages : ws.packages[versioned] # url

(***************************************************************************)
(* The command line (src/main.rs): entry and main.  What entry calls        *)
(* outside of main.rs (getopts, backends::resolve, Environment::import,     *)
(* Backend::process) is taken by its outcome: Ok, or an error of one of the *)
(* kinds the design tells apart.                                            *)
(***************************************************************************)
\* packages named on the command line, at most
MaxPackages == 2

Backends == {"java", "nope"}

\* the command line: an option getopts does not know, the options --backend
\* and --out (both reqopt), -h, --debug, the free arguments
CommandLines ==
    [unknown : BOOLEAN, backend : {None} \cup {Some(b) : b \in Backends}, out : BOOLEAN,
     help : BOOLEAN, debug : BOOLEAN, free : 0..MaxPackages]

UserError == [kind |-> "Err", what |-> "user"]
CompileError == [kind |-> "Err", what |-> "compile"]

\* opts.parse(&args[1..])
OptsParse(cmd) ==
    IF cmd.unknown \/ cmd.backend = None \/ ~cmd.out THEN UserError ELSE Ok

\* backends::resolve(&backend)
BackendsResolve(backend) == IF backend = "java" THEN Ok ELSE UserError

\* what Environment::import and Backend::process can come back with
Outcomes == {Ok, CompileError, IoError("write")}

\* variant: one exit code for each kind of error
ExitCodeByKind(result) ==
    CASE result = Ok -> 0
      [] result = UserError -> 1
      [] result = CompileError -> 2
      [] OTHER -> 3

\* main: match entry() { Err(e) => exit(1), _ => {} }; exit(0)
ExitCode(result) == IF result # Ok THEN 1 ELSE 0

CliInit ==
    /\ cli \in [cmd : CommandLines, pc : {"parse"}, level : {"Off"}, imported : {0},
                result : {NoCall}, code : {None}]
    /\ MergeOff /\ WsOff /\ GoOff /\ JavaOff /\ ObjectsOff

\* entry returns `result` to main
EntryReturns(result) == cli' = [cli EXCEPT !.pc = "main", !.result = result]

\* entry, up to setup_logger
ParseArgs ==
    /\ cli.pc = "parse"
    /\ IF OptsParse(cli.cmd) # Ok THEN EntryReturns(OptsParse(cli.cmd))
       ELSE IF cli.cmd.help THEN EntryReturns(Ok)
       ELSE IF cli.cmd.free < 1 THEN EntryReturns(Ok)
       ELSE cli' = [cli EXCEPT !.pc = "logger"]
    /\ UNCHANGED <<mergeVars, wsVars, go, java, objects>>

\* setup_logger and the options of entry, up to the loop over the packages
SetupLogger ==
    /\ cli.pc = "logger"
    /\ LET level == IF cli.cmd.debug THEN "Debug" ELSE "Info" IN
       IF cli.cmd.backend = None THEN EntryReturns(UserError)
       ELSE IF BackendsResolve(Get(cli.cmd.backend)) # Ok
       THEN cli' = [cli EXCEPT !.pc = "main", !.level = level,
                               !.result = BackendsResolve(Get(cli.cmd.backend))]
       ELSE IF ~cli.cmd.out THEN EntryReturns(UserError)
       ELSE cli' = [cli EXCEPT !.pc = "import", !.level = level]
    /\ UNCHANGED <<mergeVars, wsVars, go, java, objects>>

\* for package in matches.free { env.import(&package)?; }
Import ==
    /\ cli.pc = "import" /\ cli.imported < cli.cmd.free
    /\ \E outcome \in Outcomes :
         IF outcome # Ok THEN EntryReturns(outcome)
         ELSE cli' = [cli EXCEPT !.imported = @ + 1]
    /\ UNCHANGED <<mergeVars, wsVars, go, java, objects>>

\* backend.process(&options, &env)?; Ok(())
BackendProcess ==
    /\ cli.pc = "import" /\ cli.imported = cli.cmd.free
    /\ \E outcome \in Outcomes : EntryReturns(outcome)
    /\ UNCHANGED <<mergeVars, wsVars, go, java, objects>>

\* main, after entry
Exit ==
    /\ cli.pc = "main"
    /\ cli' = [cli EXCEPT !.pc = "exited", !.code = Some(ExitCode(cli.result))]
    /\ UNCHANGED <<mergeVars, wsVars, go, java, objects>>

CliNext == ParseArgs \/ SetupLogger \/ Import \/ BackendProcess \/ Exit

CliSpec == CliInit /\ [][CliNext]_vars

\* C18 as stated: the process exits with 0 on success, 1 on a user error, 2 on
\* a compilation error and 3 on an I/O error.
C18_Original ==
    cli.pc = "exited" =>
      Get(cli.code) = CASE cli.result = Ok -> 0
                        [] cli.result.what = "user" -> 1
                        [] cli.result.what = "compile" -> 2
                        [] OTHER -> 3

\* everything entry was asked to do went well
Success ==
    \/ cli.cmd.help
    \/ cli.cmd.free = 0
    \/ cli.imported = cli.cmd.free /\ cli.result = Ok

\* C18, amended: the process exits with 0 when the command line parses and
\* help is asked for, no package is named, or every import and the backend
\* succeed; it exits with 1 on every error, whatever its kind (arguments,
\* backend, compilation, I/O); there is no other exit code.
C18_ExitCodes ==
    cli.pc = "exited" =>
      /\ Get(cli.code) \in {0, 1}
      /\ Get(cli.code) = 0 <=> (OptsParse(cli.cmd) = Ok /\ Success)
      /\ Get(cli.code) = 1 <=> cli.result \in {UserError, CompileError, IoError("write")}

\* the process has exited after a compilation error, and after an I/O error
\* it would exit the same
C18_Witness ==
    /\ cli.pc = "exited"
    /\ cli.result = CompileError
    /\ cli.imported > 0
    /\ Get(cli.code) = 1

(***************************************************************************)
(* The Go backend (lib/backend-go): Compiler::resolve_full_path,            *)
(* Compiler::field_type, Compiler::convert_name and GoFlavorTranslator.     *)
(* A text is the sequence of its pieces; a part of a package is a text.     *)
(***************************************************************************)
\* parts in a package and nodes in a type, at most
MaxParts == 2
MaxNodes == 3

\* const TYPE_SEP: &'static str = "_"
TYPE_SEP == <<"_">>

\* the extension of the files of the backend
EXT == <<"go">>

\* the parts a package is made of
GoParts == {<<"a">>, <<"b">>, <<"a", "_", "b">>}

RECURSIVE GoPackagesOf(_)
GoPackagesOf(n) ==
    IF n = 0 THEN {<<>>}
    ELSE {<<>>} \cup {<<part>> \o rest : part \in GoParts, rest \in GoPackagesOf(n - 1)}

GoPackages == GoPackagesOf(MaxParts) \ {<<>>}

\* [String]::join(sep)
RECURSIVE Join(_, _)
Join(parts, sep) ==
    IF parts = <<>> THEN <<>>
    ELSE IF Len(parts) = 1 THEN parts[1]
    ELSE parts[1] \o sep \o Join(Tail(parts), sep)

\* RelativePathBuf::join: the path, a separator unless the path is empty, the
\* component
PathJoin(path, component) ==
    IF path = <<>> THEN component ELSE path \o <<"/">> \o component

\* RelativePathBuf::set_extension on a path whose file name has no extension
SetExtension(path, extension) == path \o <<".">> \o extension

\* variant: the file lies in the output root, its name made of the package
ResolveFlatPath(package) ==
    SetExtension(Join(package, <<"_">>) \o <<"_">> \o <<"lib">>, EXT)

\* Compiler::resolve_full_path
ResolveFullPath(package) ==
    SetExtension(PathJoin(Join(package, <<"_">>), <<"lib">>), EXT)

\* genco::go
GoLocal(name) == [kind |-> "local", name |-> name]
GoImported(module, name) == [kind |-> "imported", module |-> module, name |-> name]
GoArray(inner) == [kind |-> "array", inner |-> inner]
GoMap(key, value) == [kind |-> "map", key |-> key, value |-> value]
GoInterface == [kind |-> "interface"]
Unsupported == [kind |-> "Err", what |-> "unsupported type"]

\* RpName: the prefix it was written with, the package it is of (as the
\* package translation of the backend hands it on), the path
GoNames ==
    [prefix : {None, Some("q")}, package : {<<<<"a">>>>, <<<<"a">>, <<"b">>>>},
     path : {<<<<"T">>>>, <<<<"T">>, <<"U">>>>}]

\* RpNumberKind and the sizes of RpType::Signed and RpType::Unsigned
NumberKinds == {"U32", "U64", "I32", "I64"}
Sized(kind) ==
    CASE kind = "U32" -> [kind |-> "Unsigned", size |-> 32]
      [] kind = "U64" -> [kind |-> "Unsigned", size |-> 64]
      [] kind = "I32" -> [kind |-> "Signed", size |-> 32]
      [] kind = "I64" -> [kind |-> "Signed", size |-> 64]

\* the types of the IR without a type inside
Primitives ==
    {[kind |-> k] : k \in {"String", "DateTime", "Bytes", "Float", "Double", "Boolean", "Any"}}
    \cup {[kind |-> "Number", number |-> n] : n \in NumberKinds}
    \cup {[kind |-> "Name", name |-> n] : n \in GoNames}

\* the types of the IR of exactly n nodes
RECURSIVE TypesOfSize(_)
TypesOfSize(n) ==
    IF n < 1 THEN {}
    ELSE IF n = 1 THEN Primitives
    ELSE {[kind |-> "Array", inner |-> t] : t \in TypesOfSize(n - 1)}
         \cup UNION {{[kind |-> "Map", key |-> k, value |-> v] :
                        k \in TypesOfSize(i), v \in TypesOfSize(n - 1 - i)} : i \in 1..(n - 2)}

RpTypes == UNION {TypesOfSize(n) : n \in 1..MaxNodes}

\* registered.ident(&name, |p| p.join(TYPE_SEP), |c| c.join(TYPE_SEP))
GoIdent(name) == Join(name.path, TYPE_SEP)

\* Compiler::convert_name
ConvertName(name) ==
    IF name.prefix # None
    THEN GoImported(<<"../">> \o Join(name.package, <<"_">>), GoIdent(name))
    ELSE GoLocal(GoIdent(name))

\* Compiler::field_type.  An error of a type inside is the error of the whole
\* (`?`).
RECURSIVE FieldType(_)
FieldType(ty) ==
    CASE ty.kind = "String" -> GoLocal(<<"string">>)
      [] ty.kind = "DateTime" -> GoLocal(<<"string">>)
      [] ty.kind = "Bytes" -> GoLocal(<<"string">>)
      [] ty.kind = "Number" /\ Sized(ty.number) = [kind |-> "Signed", size |-> 32] ->
           GoLocal(<<"int32">>)
      [] ty.kind = "Number" /\ Sized(ty.number) = [kind |-> "Signed", size |-> 64] ->
           GoLocal(<<"int64">>)
      [] ty.kind = "Number" /\ Sized(ty.number) = [kind |-> "Unsigned", size |-> 32] ->
           GoLocal(<<"uint32">>)
      [] ty.kind = "Number" /\ Sized(ty.number) = [kind |-> "Unsigned", size |-> 64] ->
           GoLocal(<<"uint64">>)
      [] ty.kind = "Float" -> GoLocal(<<"float32">>)
      [] ty.kind = "Double" -> GoLocal(<<"float64">>)
      [] ty.kind = "Boolean" -> GoLocal(<<"bool">>)
      [] ty.kind = "Array" ->
           LET argument == FieldType(ty.inner)
           IN  IF argument = Unsupported THEN Unsupported ELSE GoArray(argument)
      [] ty.kind = "Name" -> ConvertName(ty.name)
      [] ty.kind = "Map" ->
           LET key == FieldType(ty.key)
               value == FieldType(ty.value)
           IN  IF key = Unsupported \/ value = Unsupported THEN Unsupported
               ELSE GoMap(key, value)
      [] ty.kind = "Any" -> GoInterface
      [] OTHER -> Unsupported

\* variant: every number is a signed one
TranslateSigned(kind) ==
    IF kind \in {"U32", "I32"} THEN GoLocal(<<"int32">>) ELSE GoLocal(<<"int64">>)

\* GoFlavorTranslator::translate_number
TranslateNumber(kind) ==
    CASE kind = "U32" -> GoLocal(<<"uint32">>)
      [] kind = "U64" -> GoLocal(<<"uint64">>)
      [] kind = "I32" -> GoLocal(<<"int32">>)
      [] kind = "I64" -> GoLocal(<<"int64">>)

\* GoFlavorTranslator::translate_name
TranslateName(name) ==
    IF name.prefix # None
    THEN GoImported(<<"../">> \o Join(name.package, TYPE_SEP), GoIdent(name))
    ELSE GoLocal(GoIdent(name))

\* The translation of a type: the structural rewrite of the core, which calls
\* the mapper of GoFlavorTranslator for the kind of the type, the types inside
\* translated first.
RECURSIVE TranslateType(_)
TranslateType(ty) ==
    CASE ty.kind = "Number" -> TranslateNumber(ty.number)
      [] ty.kind = "Float" -> GoLocal(<<"float32">>)
      [] ty.kind = "Double" -> GoLocal(<<"float64">>)
      [] ty.kind = "Boolean" -> GoLocal(<<"bool">>)
      [] ty.kind = "String" -> GoLocal(<<"string">>)
      [] ty.kind = "DateTime" -> GoLocal(<<"string">>)
      [] ty.kind = "Array" -> GoArray(TranslateType(ty.inner))
      [] ty.kind = "Map" -> GoMap(TranslateType(ty.key), TranslateType(ty.value))
      [] ty.kind = "Any" -> GoInterface
      [] ty.kind = "Bytes" -> GoLocal(<<"string">>)
      [] ty.kind = "Name" -> TranslateName(ty.name)

\* What the backend is given: a type of a field, or two packages to write.
GoInit ==
    /\ go \in [input : [kind : {"type"}, ty : RpTypes]
                       \cup [kind : {"packages"}, a : GoPackages, b : GoPackages],
               field : {NoCall}, translated : {NoCall}, paths : {NoCall}]
    /\ MergeOff /\ WsOff /\ CliOff /\ JavaOff /\ ObjectsOff

\* process_struct: self.field_type(&f.ty)
CompileField ==
    /\ go.input.kind = "type" /\ go.field = NoCall
    /\ go' = [go EXCEPT !.field = FieldType(go.input.ty)]
    /\ UNCHANGED <<mergeVars, wsVars, cli, java, objects>>

\* the flavor translation of the type of a field
TranslateField ==
    /\ go.input.kind = "type" /\ go.translated = NoCall
    /\ go' = [go EXCEPT !.translated = TranslateType(go.input.ty)]
    /\ UNCHANGED <<mergeVars, wsVars, cli, java, objects>>

\* the package processor asks for the path of the file of each package
WriteFiles ==
    /\ go.input.kind = "packages" /\ go.paths = NoCall
    /\ go' = [go EXCEPT !.paths = [a |-> ResolveFullPath(go.input.a),
                                   b |-> ResolveFullPath(go.input.b)]]
    /\ UNCHANGED <<mergeVars, wsVars, cli, java, objects>>

GoNext == CompileField \/ TranslateField \/ WriteFiles

GoSpec == GoInit /\ [][GoNext]_vars

\* A package none of whose parts has the separator in it.
Plain(package) == \A i \in 1..Len(package) : \A j \in 1..Len(package[i]) : package[i][j] # "_"

\* C19 as the specification words it: the file of a package is named
\* <joined>_lib.go, and distinct packages have distinct files.
C19_Original ==
    go.paths # NoCall =>
        /\ go.paths.a = Join(go.input.a, <<"_">>) \o <<"_", "lib", ".", "go">>
        /\ go.paths.b = Join(go.input.b, <<"_">>) \o <<"_", "lib", ".", "go">>
        /\ go.input.a # go.input.b => go.paths.a # go.paths.b

\* C19: the Go backend writes a package to the one file lib.go in the directory
\* named by the parts of the package joined with `_`; two packages have the same
\* file exactly when their joined names are the same, so distinct packages whose
\* parts have no `_` in them have distinct files.
C19_FilePerPackage ==
    go.paths # NoCall =>
        /\ go.paths.a = Join(go.input.a, <<"_">>) \o <<"/", "lib", ".", "go">>
        /\ go.paths.b = Join(go.input.b, <<"_">>) \o <<"/", "lib", ".", "go">>
        /\ go.paths.a = go.paths.b <=>
               Join(go.input.a, <<"_">>) = Join(go.input.b, <<"_">>)
        /\ Plain(go.input.a) /\ Plain(go.input.b) /\ go.input.a # go.input.b =>
               go.paths.a # go.paths.b

C19_Witness ==
    /\ go.paths # NoCall
    /\ Len(go.input.a) = 2 /\ Len(go.input.b) = 2
    /\ Plain(go.input.a) /\ Plain(go.input.b)
    /\ go.input.a # go.input.b
    /\ go.paths.a # go.paths.b

\* The mapping of the IR types on the types of Go, as the specification states
\* it.
RECURSIVE GoMapping(_)
GoMapping(ty) ==
    CASE ty.kind \in {"String", "DateTime", "Bytes"} -> GoLocal(<<"string">>)
      [] ty.kind = "Number" ->
           GoLocal(<<CASE ty.number = "U32" -> "uint32" [] ty.number = "U64" -> "uint64"
                       [] ty.number = "I32" -> "int32" [] ty.number = "I64" -> "int64">>)
      [] ty.kind = "Float" -> GoLocal(<<"float32">>)
      [] ty.kind = "Double" -> GoLocal(<<"float64">>)
      [] ty.kind = "Boolean" -> GoLocal(<<"bool">>)
      [] ty.kind = "Any" -> GoInterface
      [] ty.kind = "Array" -> GoArray(GoMapping(ty.inner))
      [] ty.kind = "Map" -> GoMap(GoMapping(ty.key), GoMapping(ty.value))
      [] ty.kind = "Name" ->
           IF ty.name.prefix = None THEN GoLocal(Join(ty.name.path, <<"_">>))
           ELSE GoImported(<<"../">> \o Join(ty.name.package, <<"_">>),
                           Join(ty.name.path, <<"_">>))

MaxFields == 2

\* genco::java: the types fields have: primitives, and classes (String, a
\* class without and one with type arguments)
Primitive(name) == [kind |-> "primitive", name |-> name]
Class(name, arguments) == [kind |-> "class", name |-> name, arguments |-> arguments]
SHORT == Primitive("short")
INTEGER == Primitive("int")
LONG == Primitive("long")
FLOAT == Primitive("float")
DOUBLE == Primitive("double")
JavaBoolean == Primitive("boolean")
JavaString == Class("String", <<>>)
JavaTypes ==
    {SHORT, INTEGER, LONG, FLOAT, DOUBLE, JavaBoolean, JavaString,
     Class("Foo", <<>>), Class("List", <<"Foo">>)}

\* spec.fields of a tuple: the types of the fields, in declared order
RECURSIVE FieldLists(_)
FieldLists(n) ==
    IF n = 0 THEN {<<>>}
    ELSE {<<>>} \cup {<<ty>> \o rest : ty \in JavaTypes, rest \in FieldLists(n - 1)}

CannotSerialize == [kind |-> "Err", what |-> "cannot serialize type"]
UnsupportedType == [kind |-> "Err", what |-> "unsupported type"]

\* the statements of the generated methods, and a generated class
Stmt(op, arg) == [op |-> op, arg |-> arg]
Generated(name, code) == [kind |-> "Ok", name |-> name, code |-> code]

\* tuple_serializer: the write of one field
WriteOf(ty, i) ==
    CASE ty \in {SHORT, LONG, INTEGER, FLOAT, DOUBLE} -> Stmt("writeNumber", i)
      [] ty.kind = "primitive" -> CannotSerialize
      [] ty.kind = "class" ->
           IF ty = JavaString THEN Stmt("writeString", i) ELSE Stmt("writeObject", i)
      [] OTHER -> Stmt("writeObject", i)

\* tuple_serializer: the body of serialize, or the error of the first field
\* that cannot be written
TupleSerializer(fields) ==
    LET failed == {i \in DOMAIN fields : WriteOf(fields[i], i) = CannotSerialize}
    IN  IF failed # {} THEN CannotSerialize
        ELSE Generated("Serializer",
                       <<Stmt("writeStartArray", 0)>>
                         \o [i \in DOMAIN fields |-> WriteOf(fields[i], i)]
                         \o <<Stmt("writeEndArray", 0)>>)

\* deserialize_method_for_type: (token, reader), the token a test and the name
\* of the expected token, or None
DeserializeMethodForType(ty) ==
    CASE ty = SHORT -> [token |-> Some(<<"isNumeric", "VALUE_NUMBER_INT">>), reader |-> "getShortValue"]
      [] ty = LONG -> [token |-> Some(<<"isNumeric", "VALUE_NUMBER_INT">>), reader |-> "getLongValue"]
      [] ty = INTEGER -> [token |-> Some(<<"isNumeric", "VALUE_NUMBER_INT">>), reader |-> "getIntegerValue"]
      [] ty = FLOAT -> [token |-> Some(<<"isNumeric", "VALUE_NUMBER_FLOAT">>), reader |-> "getFloatValue"]
      [] ty = DOUBLE -> [token |-> Some(<<"isNumeric", "VALUE_NUMBER_FLOAT">>), reader |-> "getDoubleValue"]
      [] ty.kind = "primitive" -> UnsupportedType
      [] ty.kind = "class" ->
           IF ty = JavaString
           THEN [token |-> Some(<<"VALUE_STRING", "VALUE_STRING">>), reader |-> "getText"]
           ELSE [token |-> None, reader |-> "readValueAs"]
      [] OTHER -> UnsupportedType

\* the statements tuple_deserializer pushes for one field: the check of the
\* next token when there is one, and the assignment of what the reader gives
FieldStatements(ty, i) ==
    LET m == DeserializeMethodForType(ty)
    IN  (IF m.token # None
         THEN <<Stmt("checkNext", [test |-> Get(m.token)[1], expected |-> Get(m.token)[2]])>>
         ELSE <<>>)
        \o <<Stmt("assign", [var |-> i, reader |-> m.reader])>>

RECURSIVE FieldsStatements(_, _)
FieldsStatements(fields, i) ==
    IF i > Len(fields) THEN <<>>
    ELSE FieldStatements(fields[i], i) \o FieldsStatements(fields, i + 1)

\* tuple_deserializer: the body of deserialize, or the error of the first
\* field that has no reader (`?`)
TupleDeserializer(fields) ==
    IF \E i \in DOMAIN fields : DeserializeMethodForType(fields[i]) = UnsupportedType
    THEN UnsupportedType
    ELSE Generated("Deserializer",
                   <<Stmt("checkCurrent", [test |-> "START_ARRAY", expected |-> "START_ARRAY"])>>
                     \o FieldsStatements(fields, 1)
                     \o <<Stmt("checkNext", [test |-> "END_ARRAY", expected |-> "END_ARRAY"]),
                          Stmt("return", [arguments |-> [i \in DOMAIN fields |-> i]])>>)

\* add_tuple_serialization: the serializer, then the deserializer, each pushed
\* to the body of the class; the first error is the result and what was pushed
\* before it stays
AddTupleSerialization(name, fields) ==
    LET serializer == TupleSerializer(fields)
        deserializer == TupleDeserializer(fields)
        serialize == [annotation |-> "JsonSerialize", using |-> <<name, "Serializer">>]
        deserialize == [annotation |-> "JsonDeserialize", using |-> <<name, "Deserializer">>]
    IN  IF serializer = CannotSerialize
        THEN [result |-> CannotSerialize, annotations |-> <<>>, body |-> <<>>]
        ELSE IF deserializer = UnsupportedType
        THEN [result |-> UnsupportedType, annotations |-> <<serialize>>,
              body |-> <<serializer>>]
        ELSE [result |-> Ok, annotations |-> <<serialize, deserialize>>,
              body |-> <<serializer, deserializer>>]

\* interface_added: the discriminator annotation, then the sub-types
\* annotation with one entry for each name of each sub-type, the sub-types in
\* the order of their keys (BTreeMap)
SubTypeEntries(name, sub_types) ==
    LET RECURSIVE OfKeys(_)
        OfKeys(i) ==
            IF i > Len(KeyOrder) THEN <<>>
            ELSE (IF KeyOrder[i] \in DOMAIN sub_types
                  THEN [j \in DOMAIN sub_types[KeyOrder[i]] |->
                          [name |-> sub_types[KeyOrder[i]][j],
                           value |-> <<name, KeyOrder[i]>>]]
                  ELSE <<>>) \o OfKeys(i + 1)
    IN  OfKeys(1)

InterfaceAnnotations(name, sub_types) ==
    <<[annotation |-> "JsonTypeInfo", use |-> "NAME", include |-> "PROPERTY",
       property |-> "type"],
      [annotation |-> "JsonSubTypes", entries |-> SubTypeEntries(name, sub_types)]>>

\* the names a sub-type is known under on the wire, as declared and merged
\* (SubType::merge appends the names of the source)
SubTypeNames == SeqsUpTo({"n", "m"}, MaxFields)

\* e.body of InterfaceAdded: the sub-types by key
JavaInterfaces ==
    UNION {[K -> SubTypeNames] : K \in SUBSET Keys}

(***************************************************************************)
(* The generated code at work: com.fasterxml.jackson.core.JsonParser over  *)
(* the tokens of a document.                                               *)
(***************************************************************************)
\* the tokens of the elements an array is read from
JsonElements ==
    {<<"VALUE_NUMBER_INT">>, <<"VALUE_NUMBER_FLOAT">>, <<"VALUE_STRING">>,
     <<"START_OBJECT", "END_OBJECT">>}

RECURSIVE JsonBodies(_)
JsonBodies(n) ==
    IF n = 0 THEN {<<>>}
    ELSE {<<>>} \cup {e \o rest : e \in JsonElements, rest \in JsonBodies(n - 1)}

\* the documents handed to a deserializer: arrays, and a document that is not
\* an array
JsonStreams ==
    {<<"START_ARRAY">> \o body \o <<"END_ARRAY">> : body \in JsonBodies(MaxFields)}
    \cup {<<"VALUE_STRING">>}

\* JsonParser.getCurrentToken(): null after the end of the document
TokenAt(stream, pos) == IF pos \in DOMAIN stream THEN stream[pos] ELSE "null"

\* JsonToken.isNumeric()
IsNumeric(token) == token \in {"VALUE_NUMBER_INT", "VALUE_NUMBER_FLOAT"}

\* ctxt.wrongTokenException(parser, JsonToken.<expected>, null)
WrongToken(expected) == [kind |-> "wrongTokenException", expected |-> expected]
NullPointer == [kind |-> "NullPointerException"]
Mismatched == [kind |-> "JsonMappingException"]
Constructed(values) == [kind |-> "return", values |-> values]

\* the last token of the value that starts at pos
ValueEnd(stream, pos) ==
    CASE TokenAt(stream, pos) = "START_ARRAY" ->
           Min({i \in pos..Len(stream) : stream[i] = "END_ARRAY"} \cup {Len(stream)})
      [] TokenAt(stream, pos) = "START_OBJECT" ->
           Min({i \in pos..Len(stream) : stream[i] = "END_OBJECT"} \cup {Len(stream)})
      [] OTHER -> pos

\* The module is handed a tuple or an interface the backend has built a class
\* for; nothing is generated yet, nothing runs.
JavaInit ==
    /\ java \in [input : [kind : {"tuple"}, name : {"Tup"}, fields : FieldLists(MaxFields)]
                         \cup [kind : {"interface"}, name : {"Shape"},
                               sub_types : JavaInterfaces],
                 result : {NoCall}, annotations : {<<>>}, body : {<<>>},
                 out : {NoCall}, run : {NoCall}]
    /\ MergeOff /\ WsOff /\ CliOff /\ GoOff /\ ObjectsOff

\* Listeners::tuple_added
TupleAdded ==
    /\ java.input.kind = "tuple" /\ java.result = NoCall
    /\ LET added == AddTupleSerialization(java.input.name, java.input.fields)
       IN  java' = [java EXCEPT !.result = added.result,
                                !.annotations = added.annotations,
                                !.body = added.body]
    /\ UNCHANGED <<mergeVars, wsVars, cli, go, objects>>

\* Listeners::interface_added
InterfaceAdded ==
    /\ java.input.kind = "interface" /\ java.result = NoCall
    /\ java' = [java EXCEPT !.result = Ok,
                            !.annotations =
                                InterfaceAnnotations(java.input.name, java.input.sub_types)]
    /\ UNCHANGED <<mergeVars, wsVars, cli, go, objects>>

\* Serializer.serialize(value, jgen, provider): the calls made on jgen
Serialize ==
    /\ java.input.kind = "tuple" /\ java.result = Ok /\ java.out = NoCall
    /\ java' = [java EXCEPT !.out =
                   [kind |-> "written",
                    calls |-> [i \in DOMAIN java.body[1].code |->
                                 <<java.body[1].code[i].op, java.body[1].code[i].arg>>]]]
    /\ UNCHANGED <<mergeVars, wsVars, cli, go, objects>>

\* Deserializer.deserialize(parser, ctxt) is called, the parser at the first
\* token of the document
Deserialize ==
    /\ java.input.kind = "tuple" /\ java.result = Ok /\ java.run = NoCall
    /\ \E stream \in JsonStreams :
         java' = [java EXCEPT !.run = [kind |-> "run", stream |-> stream, pos |-> 1,
                                       ip |-> 1, values |-> <<>>, outcome |-> NoCall]]
    /\ UNCHANGED <<mergeVars, wsVars, cli, go, objects>>

\* the statement the deserializer is at
Running == java.run # NoCall /\ java.run.outcome = NoCall
Statement == java.body[2].code[java.run.ip]

\* if (parser.getCurrentToken() != T) / if (parser.nextToken() != T) /
\* if (!parser.nextToken().isNumeric()): throw ctxt.wrongTokenException
CheckToken ==
    /\ Running /\ Statement.op \in {"checkCurrent", "checkNext"}
    /\ LET run == java.run
           pos == IF Statement.op = "checkNext" THEN run.pos + 1 ELSE run.pos
           token == TokenAt(run.stream, pos)
           test == Statement.arg.test
           outcome ==
               IF test = "isNumeric"
               THEN IF token = "null" THEN NullPointer
                    ELSE IF ~IsNumeric(token) THEN WrongToken(Statement.arg.expected)
                    ELSE NoCall
               ELSE IF token # test THEN WrongToken(Statement.arg.expected) ELSE NoCall
       IN  java' = [java EXCEPT !.run = [run EXCEPT !.pos = pos, !.ip = run.ip + 1,
                                                     !.outcome = outcome]]
    /\ UNCHANGED <<mergeVars, wsVars, cli, go, objects>>

\* final T v_f = parser.get...Value() / getText() / readValueAs(...): the
\* scalar readers give the value of the current token; readValueAs binds the
\* value that starts at the current token (the next one when there is none) and
\* leaves the parser at its last token
Assign ==
    /\ Running /\ Statement.op = "assign"
    /\ LET run == java.run
           token == TokenAt(run.stream, run.pos)
       IN  IF Statement.arg.reader = "readValueAs"
           THEN IF token \in {"null", "END_ARRAY", "END_OBJECT"}
                THEN java' = [java EXCEPT !.run.outcome = Mismatched]
                ELSE java' = [java EXCEPT
                        !.run.values = Append(run.values,
                            [first |-> run.pos, last |-> ValueEnd(run.stream, run.pos)]),
                        !.run.pos = ValueEnd(run.stream, run.pos),
                        !.run.ip = run.ip + 1]
           ELSE java' = [java EXCEPT
                        !.run.values = Append(run.values, [first |-> run.pos, last |-> run.pos]),
                        !.run.ip = run.ip + 1]
    /\ UNCHANGED <<mergeVars, wsVars, cli, go, objects>>

\* return new T(v_1, ..., v_n)
ReturnTuple ==
    /\ Running /\ Statement.op = "return"
    /\ java' = [java EXCEPT !.run.outcome =
                   Constructed([i \in DOMAIN Statement.arg.arguments |->
                                  java.run.values[Statement.arg.arguments[i]]])]
    /\ UNCHANGED <<mergeVars, wsVars, cli, go, objects>>

JavaNext ==
    TupleAdded \/ InterfaceAdded \/ Serialize \/ Deserialize \/ CheckToken \/ Assign
        \/ ReturnTuple

JavaSpec == JavaInit /\ [][JavaNext]_vars

\* C21: the generated Deserializer keeps to the protocol: the value of every
\* field is read from the token(s) right after those of the field before it
\* (the first right after START_ARRAY); a run ends with the tuple or with the
\* wrong-token exception and nothing else; and the tuple is made of one value
\* for each field, END_ARRAY being the token right after the last value.
C21_DeserializerProtocol ==
    java.run # NoCall =>
        LET run == java.run
            n == Len(java.input.fields)
        IN  /\ \A i \in DOMAIN run.values :
                  run.values[i].first = IF i = 1 THEN 2 ELSE run.values[i - 1].last + 1
            /\ run.outcome.kind \in {"NoCall", "return", "wrongTokenException"}
            /\ run.outcome.kind = "return" =>
                  /\ Len(run.outcome.values) = n
                  /\ run.pos = (IF n = 0 THEN 1 ELSE run.values[n].last) + 1
                  /\ TokenAt(run.stream, run.pos) = "END_ARRAY"

\* the writer the serialization module is to use for a field of the type
StatedWriter(ty) ==
    CASE ty \in {SHORT, INTEGER, LONG, FLOAT, DOUBLE} -> {"writeNumber"}
      [] ty = JavaString -> {"writeString"}
      [] ty.kind = "primitive" -> {"writeNumber", "writeString", "writeObject", "writeBoolean"}
      [] OTHER -> {"writeObject"}

\* C22: every tuple handed to the module, one with a boolean field too, gets a
\* Serializer and a Deserializer; the Serializer writes start-array, one value
\* for each field in declared order with the writer of the type of the field,
\* and end-array.
C22_SerializerForEveryTuple ==
    (java.input.kind = "tuple" /\ java.result # NoCall) =>
        LET fields == java.input.fields
            n == Len(fields)
        IN  /\ java.result = Ok
            /\ [i \in DOMAIN java.body |-> java.body[i].name] = <<"Serializer", "Deserializer">>
            /\ LET code == java.body[1].code
               IN  /\ Len(code) = n + 2
                   /\ code[1].op = "writeStartArray" /\ code[n + 2].op = "writeEndArray"
                   /\ \A i \in 1..n :
                         code[i + 1].op \in StatedWriter(fields[i]) /\ code[i + 1].arg = i
                   /\ java.out # NoCall =>
                         java.out.calls = [i \in DOMAIN code |-> <<code[i].op, code[i].arg>>]

\* C23: an interface gets one discriminator annotation with the property
\* "type" and one sub-types annotation; every sub-type has an entry that pairs
\* one of its names with the class <Interface>.<key>; there are as many entries
\* as names; the entries are in the order of the keys of the sub-types.
C23_SubTypeAnnotations ==
    (java.input.kind = "interface" /\ java.result # NoCall) =>
        LET sub_types == java.input.sub_types
            ann == java.annotations
            KeyIndex(key) == CHOOSE i \in DOMAIN KeyOrder : KeyOrder[i] = key
            RECURSIVE Count(_)
            Count(K) ==
                IF K = {} THEN 0
                ELSE LET k == CHOOSE x \in K : TRUE
                     IN  Len(sub_types[k]) + Count(K \ {k})
        IN  /\ Len(ann) = 2
            /\ ann[1].annotation = "JsonTypeInfo" /\ ann[1].property = "type"
            /\ ann[2].annotation = "JsonSubTypes"
            /\ Len(ann[2].entries) = Count(DOMAIN sub_types)
            /\ \A key \in DOMAIN sub_types :
                  \E i \in DOMAIN ann[2].entries :
                      /\ ann[2].entries[i].value = <<java.input.name, key>>
                      /\ ann[2].entries[i].name \in Range(sub_types[key])
            /\ \A i, j \in DOMAIN ann[2].entries :
                  i < j => KeyIndex(ann[2].entries[i].value[2]) <= KeyIndex(ann[2].entries[j].value[2])

(***************************************************************************)
(* Listeners: the generators of the Go backend (Options::field_gens,       *)
(* tuple_gens, enum_gens, interface_gens) and the modules of the Java      *)
(* backend.                                                                *)
(***************************************************************************)
\* the generators one can register, and the lists of them in the order of
\* registration
GenNames == {"g", "h"}
GenLists == {<<>>, <<"g">>, <<"h">>, <<"g", "h">>, <<"h", "g">>}

\* the fields of a body: known by their place
GoFields(prefix, k) == [i \in 1..k |-> <<prefix, i>>]

\* the declarations handed to the compiler
GoDecls ==
    {[kind |-> k, name |-> "D", fields |-> GoFields("D", n), sub_types |-> <<>>] :
        k \in {"type", "tuple"}, n \in 0..MaxFields}
    \cup {[kind |-> "enum", name |-> "D", fields |-> <<>>, sub_types |-> <<>>]}
    \cup {[kind |-> "interface", name |-> "D", fields |-> GoFields("D", n),
           sub_types |-> [i \in 1..m |-> [name |-> KeyOrder[i],
                                          fields |-> GoFields(KeyOrder[i], j)]]] :
            n \in 0..1, m \in 0..Len(KeyOrder), j \in 0..(MaxFields - 1)}

GenError(g) == [kind |-> "Err", what |-> g]

\* for g in gens { g.generate(event)?; }: the calls made, the last one the
\* failed one when a generator fails
RECURSIVE Generate(_, _, _)
Generate(gens, event, fails) ==
    IF gens = <<>> THEN [calls |-> <<>>, result |-> Ok]
    ELSE IF Head(gens) \in fails
    THEN [calls |-> <<[gen |-> Head(gens), event |-> event]>>, result |-> GenError(Head(gens))]
    ELSE LET rest == Generate(Tail(gens), event, fails)
         IN  [calls |-> <<[gen |-> Head(gens), event |-> event]>> \o rest.calls,
              result |-> rest.result]

\* Compiler::process_struct: the field generators, for each field in turn
RECURSIVE ProcessStruct(_, _, _, _)
ProcessStruct(name, fields, options, fails) ==
    IF fields = <<>> THEN [calls |-> <<>>, result |-> Ok]
    ELSE LET first == Generate(options.field_gens,
                               [kind |-> "FieldAdded", of |-> name, field |-> Head(fields)], fails)
         IN  IF first.result # Ok THEN first
             ELSE LET rest == ProcessStruct(name, Tail(fields), options, fails)
                  IN  [calls |-> first.calls \o rest.calls, result |-> rest.result]

\* the structs of the sub-types of an interface, each with the fields of the
\* interface and its own
RECURSIVE ProcessSubTypes(_, _, _, _)
ProcessSubTypes(body, sub_types, options, fails) ==
    IF sub_types = <<>> THEN [calls |-> <<>>, result |-> Ok]
    ELSE LET first == ProcessStruct(Head(sub_types).name,
                                    body.fields \o Head(sub_types).fields, options, fails)
         IN  IF first.result # Ok THEN first
             ELSE LET rest == ProcessSubTypes(body, Tail(sub_types), options, fails)
                  IN  [calls |-> first.calls \o rest.calls, result |-> rest.result]

\* a step of a handler after the steps before it: nothing when those failed
Then(before, after) ==
    IF before.result # Ok THEN before
    ELSE [calls |-> before.calls \o after.calls, result |-> after.result]

\* options.modules
ModuleLists ==
    {<<>>, <<"fasterxml">>, <<"fasterxml", "lombok">>, <<"lombok", "fasterxml">>,
     <<"lombok", "nope", "fasterxml">>}

\* the declaration, the generators registered, and those that fail
ListenInit ==
    /\ go \in [input : [kind : {"decl"}, body : GoDecls,
                        options : [field_gens : GenLists, decl_gens : GenLists],
                        fails : {{}, {"h"}}],
               calls : {<<>>}, result : {NoCall}]
    /\ java \in [modules : ModuleLists,
                 listeners : {<<>>}, configured : {<<>>}, result : {NoCall}]
    /\ MergeOff /\ WsOff /\ CliOff /\ ObjectsOff

Processing(kind) == go.input.body.kind = kind /\ go.result = NoCall
Done(outcome) == go' = [go EXCEPT !.calls = outcome.calls, !.result = outcome.result]

\* Compiler::process_type
ProcessType ==
    /\ Processing("type")
    /\ Done(ProcessStruct(go.input.body.name, go.input.body.fields, go.input.options,
                          go.input.fails))
    /\ UNCHANGED <<mergeVars, wsVars, cli, java, objects>>

\* Compiler::process_tuple: the struct is built in place, with empty tags
ProcessTuple ==
    /\ Processing("tuple")
    /\ Done(Generate(go.input.options.decl_gens,
                     [kind |-> "TupleAdded", of |-> go.input.body.name], go.input.fails))
    /\ UNCHANGED <<mergeVars, wsVars, cli, java, objects>>

\* Compiler::process_enum
ProcessEnum ==
    /\ Processing("enum")
    /\ Done(Generate(go.input.options.decl_gens,
                     [kind |-> "EnumAdded", of |-> go.input.body.name], go.input.fails))
    /\ UNCHANGED <<mergeVars, wsVars, cli, java, objects>>

\* Compiler::process_interface
ProcessInterface ==
    /\ Processing("interface")
    /\ Done(Then(ProcessSubTypes(go.input.body, go.input.body.sub_types, go.input.options,
                                 go.input.fails),
                 Generate(go.input.options.decl_gens,
                          [kind |-> "InterfaceAdded", of |-> go.input.body.name],
                          go.input.fails)))
    /\ UNCHANGED <<mergeVars, wsVars, cli, java, objects>>

\* setup_module
KnownModules == {"builder", "constructor_properties", "fasterxml", "lombok", "mutable", "nullable"}

\* setup_listeners: every module is set up, in the order listed (`?` on one
\* that is not known), then every listener is configured, in that order
SetupListeners ==
    /\ java.result = NoCall
    /\ LET unknown == {i \in DOMAIN java.modules : java.modules[i] \notin KnownModules}
       IN  IF unknown # {}
           THEN java' = [java EXCEPT
                    !.listeners = SubSeq(java.modules, 1, Min(unknown) - 1),
                    !.result = [kind |-> "Err", what |-> "No such module"]]
           ELSE java' = [java EXCEPT !.listeners = java.modules,
                                     !.configured = java.modules, !.result = Ok]
    /\ UNCHANGED <<mergeVars, wsVars, cli, go, objects>>

ListenNext == ProcessType \/ ProcessTuple \/ ProcessEnum \/ ProcessInterface \/ SetupListeners

ListenSpec == ListenInit /\ [][ListenNext]_vars

\* the structs emitted for a declaration, each with its fields
StructsOf(body) ==
    CASE body.kind \in {"type", "tuple"} -> <<[name |-> body.name, fields |-> body.fields]>>
      [] body.kind = "interface" ->
           [i \in DOMAIN body.sub_types |->
              [name |-> body.sub_types[i].name,
               fields |-> body.fields \o body.sub_types[i].fields]]
      [] OTHER -> <<>>

\* the generators called for an event, in the order of the calls
CalledWith(event) ==
    LET RECURSIVE Pick(_)
        Pick(calls) ==
            IF calls = <<>> THEN <<>>
            ELSE (IF Head(calls).event = event THEN <<Head(calls).gen>> ELSE <<>>)
                 \o Pick(Tail(calls))
    IN  Pick(go.calls)

\* C24: when a declaration has been processed, every generator registered for
\* its kind was called once for it, in the order registered, and every field
\* generator once for every field of every struct emitted, those of a tuple
\* too; the modules of Java are set up and configured in the order listed.
C24_ListenersInOrder ==
    /\ go.result = Ok =>
          LET body == go.input.body
              added == CASE body.kind = "tuple" -> "TupleAdded"
                         [] body.kind = "enum" -> "EnumAdded"
                         [] body.kind = "interface" -> "InterfaceAdded"
                         [] OTHER -> "none"
          IN  /\ added # "none" =>
                    CalledWith([kind |-> added, of |-> body.name]) = go.input.options.decl_gens
              /\ \A i \in DOMAIN StructsOf(body) :
                    \A j \in DOMAIN StructsOf(body)[i].fields :
                        CalledWith([kind |-> "FieldAdded", of |-> StructsOf(body)[i].name,
                                    field |-> StructsOf(body)[i].fields[j]])
                            = go.input.options.field_gens
    /\ java.result = Ok =>
          java.listeners = java.modules /\ java.configured = java.modules

(***************************************************************************)
(* The object stores of the repository (repository/src/objects/mod.rs).    *)
(***************************************************************************)
\* url.scheme(), as the text it is
Schemes ==
    {<<"file">>, <<"file", "+", "x">>, <<"git">>, <<"git", "+", "https">>,
     <<"git", "+", "file">>, <<"http">>, <<"http", "+", "x">>, <<"https">>, <<"ftp">>}

\* str::split("+"): the pieces between the separators, at least one
RECURSIVE Split(_, _)
Split(text, sep) ==
    LET at == {i \in DOMAIN text : text[i] = sep}
    IN  IF at = {} THEN <<text>>
        ELSE <<SubSeq(text, 1, Min(at) - 1)>> \o Split(SubSeq(text, Min(at) + 1, Len(text)), sep)

\* the stores, and the errors
FileObjects(path) == [kind |-> "FileObjects", path |-> path]
GitObjects(url, file_objects) == [kind |-> "GitObjects", url |-> url, file_objects |-> file_objects]
HttpObjects(url) == [kind |-> "HttpObjects", url |-> url]
ObjectsError(what) == [kind |-> "Err", what |-> what]

\* objects_from_file
ObjectsFromFile(url) ==
    IF ~url.is_dir THEN ObjectsError("no such directory") ELSE FileObjects(url.path)

\* objects_from_git: scheme is what is left of the pieces after the first
ObjectsFromGit(config, scheme, url, env) ==
    IF scheme = <<>> THEN ObjectsError("invalid scheme, expected git+scheme")
    ELSE IF config.repos = None THEN ObjectsError("repos: not specified")
    ELSE IF ~env.git THEN ObjectsError("git")
    ELSE GitObjects(url.scheme, FileObjects(<<Get(config.repos), Head(scheme), url.path>>))

\* objects_from_http
ObjectsFromHttp(url, env) ==
    IF ~env.core THEN ObjectsError("io") ELSE HttpObjects(url.scheme)

\* variant: https is served by the HTTP store as well
ObjectsFromPrefix(config, url, env) ==
    LET scheme == Split(url.scheme, "+")
        first == Head(scheme)
    IN  CASE first = <<"file">> -> ObjectsFromFile(url)
          [] first = <<"git">> -> ObjectsFromGit(config, Tail(scheme), url, env)
          [] first \in {<<"http">>, <<"https">>} -> ObjectsFromHttp(url, env)
          [] OTHER -> ObjectsError("unsupported scheme")

\* objects_from_url
ObjectsFromUrl(config, url, env) ==
    LET scheme == Split(url.scheme, "+")
        first == Head(scheme)
    IN  CASE first = <<"file">> -> ObjectsFromFile(url)
          [] first = <<"git">> -> ObjectsFromGit(config, Tail(scheme), url, env)
          [] first = <<"http">> -> ObjectsFromHttp(url, env)
          [] OTHER -> ObjectsError("unsupported scheme")

\* A URL, the configuration, and what the machine lets happen: whether git can
\* set the repository up, whether the reactor of the HTTP store can be made.
ObjectsInit ==
    /\ objects \in [url : [scheme : Schemes, path : {"p"}, is_dir : BOOLEAN],
                    config : [repos : {None, Some("repos")}],
                    env : [git : BOOLEAN, core : BOOLEAN],
                    result : {NoCall}]
    /\ MergeOff /\ WsOff /\ CliOff /\ GoOff /\ JavaOff

\* a caller asks for the store of the URL
OpenObjects ==
    /\ objects.result = NoCall
    /\ objects' = [objects EXCEPT
                      !.result = ObjectsFromUrl(objects.config, objects.url, objects.env)]
    /\ UNCHANGED <<mergeVars, wsVars, cli, go, java>>

ObjectsNext == OpenObjects

ObjectsSpec == ObjectsInit /\ [][ObjectsNext]_vars

\* C27: the store is chosen by the first piece of the scheme: file gives the
\* filesystem store, or the error of a path that is no directory; git gives an
\* error without a second piece or without a repos directory, else the git
\* store over a filesystem store of the checked-out repository (or the error of
\* git); http gives the HTTP store (or the error of its reactor); any other
\* scheme, https too, gives the unsupported-scheme error and no store.
C27_BackendByScheme ==
    objects.result # NoCall =>
        LET url == objects.url
            pieces == Split(url.scheme, "+")
            result == objects.result
        IN  /\ pieces[1] = <<"file">> =>
                  result = IF url.is_dir THEN FileObjects(url.path)
                           ELSE ObjectsError("no such directory")
            /\ pieces[1] = <<"git">> =>
                  /\ Len(pieces) = 1 => result = ObjectsError("invalid scheme, expected git+scheme")
                  /\ (Len(pieces) > 1 /\ objects.config.repos = None) =>
                        result = ObjectsError("repos: not specified")
                  /\ result.kind # "Err" =>
                        /\ result.kind = "GitObjects"
                        /\ result.file_objects.kind = "FileObjects"
                        /\ result.file_objects.path[1] = Get(objects.config.repos)
                  /\ (Len(pieces) > 1 /\ objects.config.repos # None /\ objects.env.git) =>
                        result.kind = "GitObjects"
            /\ pieces[1] = <<"http">> =>
                  /\ result.kind \in {"HttpObjects", "Err"}
                  /\ objects.env.core => result = HttpObjects(url.scheme)
            /\ pieces[1] \notin {<<"file">>, <<"git">>, <<"http">>} =>
                  result = ObjectsError("unsupported scheme")

C27_Witness ==
    /\ objects.result = ObjectsError("unsupported scheme")
    /\ objects.url.scheme = <<"https">>

=============================================================================
